---------------------------- MODULE Spec2Model ----------------------------
(* md-context: Markdown book -> ConTeXt.                                   *)
(*   src/src/md_ast.rs   the tree builder (parse)                          *)
(*   src/src/toc.rs      the navigation extractor (load_toc)               *)
(*   src/src/texutil.rs  the renderer (frag_to_tex) and its transducers    *)
(*   src/src/main.rs     the driver writing the output stream              *)
(* Strings are sequences of characters; a character is a one-character     *)
(* string, except those with no escape, which are named by code point.     *)
(* The output file is a sequence of bytes, the UTF-8 encoding of the text.  *)
EXTENDS Integers, Sequences, FiniteSets, TLC

VARIABLES
    tokens,          \* md_ast::parse: the event stream handed to the parser
    parse_result,    \* md_ast::parse: what parse returned (or NotRun)
    frag,            \* texutil::frag_to_tex: the fragment to render
    tex_result,      \* texutil::frag_to_tex: what it returned (or NotRun)
    typing_input,    \* texutil::to_typing: s
    typing_i,        \* texutil::to_typing: characters of s consumed so far
    typing_state,    \* texutil::to_typing: state
    typing_ret,      \* texutil::to_typing: ret
    typing_done,     \* texutil::to_typing: final_str pushed, ret returned
    summary_md,      \* toc::load_toc: what lies at book_path/SUMMARY.md
    manifest,        \* toc::load_toc: toc_frag.elements()
    toc_i,           \* toc::load_toc: top-level elements the loop has handled
    title,           \* toc::load_toc: title
    front_matter_done,      \* toc::load_toc
    front_matter_sections,  \* toc::load_toc
    body_sections,          \* toc::load_toc
    back_matter_sections,   \* toc::load_toc
    toc_result,      \* toc::load_toc: loading, or the Result it returned
    toc,             \* main::output_tex: toc
    book,            \* main: what md_ast::load gives for each section path
    output_file,     \* main::output_tex: the bytes written to output_file
    stderr,          \* main: the diagnostics printed with eprintln!
    out_pc,          \* main::output_tex: where it is
    matter_i,        \* main::output_tex: index into sections (the four matters)
    section_i,       \* main::output_tex: index into matter_sections
    call_stack,      \* main::output_section: the frames of the open calls
    section_code,    \* main::output_section: the code the last call returned
    exit_code        \* main::output_tex: the code it returned

parseVars == <<tokens, parse_result>>
texVars == <<frag, tex_result>>
typingVars == <<typing_input, typing_i, typing_state, typing_ret, typing_done>>
tocVars == <<summary_md, manifest, toc_i, title, front_matter_done, front_matter_sections,
            body_sections, back_matter_sections, toc_result>>
outVars == <<toc, book, output_file, stderr, out_pc, matter_i, section_i,
            call_stack, section_code, exit_code>>
vars == <<parseVars, texVars, typingVars, tocVars, outVars>>
notParseVars == <<texVars, typingVars, tocVars, outVars>>
notTexVars == <<parseVars, typingVars, tocVars, outVars>>
notTypingVars == <<parseVars, texVars, tocVars, outVars>>
notTocVars == <<parseVars, texVars, typingVars, outVars>>
notOutVars == <<parseVars, texVars, typingVars, tocVars>>

(* ------------------------------ bounds ------------------------------- *)
MaxDepth == 2
MaxWidth == 2
MaxRawLen == 3
MaxTextLen == 4
MaxLevel == 3
MaxCodeLen == 5
MaxManifestLen == 4
MaxSections == 2
MaxChildren == 2

(* ------------------------- generic helpers --------------------------- *)
RECURSIVE Concat(_)
Concat(seqs) ==
    IF seqs = <<>> THEN <<>> ELSE Head(seqs) \o Concat(Tail(seqs))

SeqsUpTo(S, n) == UNION {[1..k -> S] : k \in 0..n}

NotRun == [state |-> "notrun"]

(* ====================================================================== *)
(*                       md_ast.rs: the document model                    *)
(* ====================================================================== *)
Text(s) == [type |-> "Text", text |-> s]
Heading(level, f) == [type |-> "Heading", level |-> level, frag |-> f]
Paragraph(f) == [type |-> "Paragraph", frag |-> f]
List(items) == [type |-> "List", items |-> items]
Link(url, f) == [type |-> "Link", url |-> url, frag |-> f]
Image(url, f) == [type |-> "Image", url |-> url, frag |-> f]
Code(s) == [type |-> "Code", text |-> s]
BlockQuote(f) == [type |-> "BlockQuote", frag |-> f]
CodeBlock(f) == [type |-> "CodeBlock", frag |-> f]
Formatting(format, f) == [type |-> "Formatting", format |-> format, frag |-> f]
Table(alignments, header_rows, body_rows) ==
    [type |-> "Table", alignments |-> alignments,
     header_rows |-> header_rows, body_rows |-> body_rows]

(* --------------------- pulldown_cmark events -------------------------- *)
EvText(s) == [ev |-> "Text", s |-> s]
EvCode(s) == [ev |-> "Code", s |-> s]
EvHtml(s) == [ev |-> "Html", s |-> s]
EvFootnoteReference(s) == [ev |-> "FootnoteReference", s |-> s]
EvSoftBreak == [ev |-> "SoftBreak"]
EvRule == [ev |-> "Rule"]
EvStart(tag) == [ev |-> "Start", tag |-> tag]
EvEnd(tag) == [ev |-> "End", tag |-> tag]
Tag(t) == [t |-> t]
TagHeading(level) == [t |-> "Heading", level |-> level]
TagLink(dest) == [t |-> "Link", dest |-> dest]
TagImage(dest) == [t |-> "Image", dest |-> dest]
TagTable(alignments) == [t |-> "Table", alignments |-> alignments]

(* -------------------------- parse results ----------------------------- *)
\* Result<_, ASTError> together with the position the parser iterator is
\* left at (the index of the next event it would yield).
Ok(val, pos) == [ok |-> TRUE, val |-> val, pos |-> pos, err |-> ""]
Err(msg, pos) == [ok |-> FALSE, val |-> <<>>, pos |-> pos, err |-> msg]

AlignChar(al) ==
    CASE al = "None" -> " "
      [] al = "Left" -> "l"
      [] al = "Center" -> "c"
      [] al = "Right" -> "r"

RECURSIVE parse_until_end_event(_, _, _)
RECURSIVE parse_list_items(_, _, _)
RECURSIVE parse_table(_, _, _, _, _)
RECURSIVE parse_table_row(_, _, _)

parse_table_row(toks, pos, vals) ==
    IF pos > Len(toks) THEN Ok(vals, pos)
    ELSE LET event == toks[pos] IN
      IF event.ev = "End" /\ event.tag.t \in {"TableRow", "TableHead"}
        THEN Ok(vals, pos + 1)
      ELSE IF event.ev = "Start" /\ event.tag.t = "TableCell"
        THEN LET val == parse_until_end_event(toks, pos + 1, <<>>)
             IN  IF ~val.ok THEN val
                 ELSE parse_table_row(toks, val.pos, Append(vals, val.val))
      ELSE Err("unhandled table row parser event", pos + 1)

parse_table(toks, pos, align_chars, header_rows, body_rows) ==
    IF pos > Len(toks) THEN Ok(Table(align_chars, header_rows, body_rows), pos)
    ELSE LET event == toks[pos] IN
      IF event.ev = "End" /\ event.tag.t = "Table"
        THEN Ok(Table(align_chars, header_rows, body_rows), pos + 1)
      ELSE IF event.ev = "Start" /\ event.tag.t = "TableHead"
        THEN LET row == parse_table_row(toks, pos + 1, <<>>)
             IN  IF ~row.ok THEN row
                 ELSE parse_table(toks, row.pos, align_chars,
                                  Append(header_rows, row.val), body_rows)
      ELSE IF event.ev = "Start" /\ event.tag.t = "TableRow"
        THEN LET row == parse_table_row(toks, pos + 1, <<>>)
             IN  IF ~row.ok THEN row
                 ELSE parse_table(toks, row.pos, align_chars,
                                  header_rows, Append(body_rows, row.val))
      ELSE Err("unhandled table parser event", pos + 1)

parse_until_end_event(toks, pos, elements) ==
    IF pos > Len(toks) THEN Ok(elements, pos)
    ELSE LET event == toks[pos] IN
      CASE event.ev = "End" -> Ok(elements, pos + 1)
        [] event.ev = "Text" ->
             parse_until_end_event(toks, pos + 1, Append(elements, Text(event.s)))
        [] event.ev = "Code" ->
             parse_until_end_event(toks, pos + 1, Append(elements, Code(event.s)))
        [] event.ev = "SoftBreak" ->
             parse_until_end_event(toks, pos + 1, Append(elements, Text(<<"\n">>)))
        [] event.ev = "Start" ->
             LET tag == event.tag IN
             CASE tag.t = "Paragraph" ->
                    LET subfrag == parse_until_end_event(toks, pos + 1, <<>>)
                    IN  IF ~subfrag.ok THEN subfrag
                        ELSE parse_until_end_event(toks, subfrag.pos,
                                                   Append(elements, Paragraph(subfrag.val)))
               [] tag.t = "Heading" ->
                    LET subfrag == parse_until_end_event(toks, pos + 1, <<>>)
                    IN  IF ~subfrag.ok THEN subfrag
                        ELSE parse_until_end_event(toks, subfrag.pos,
                                                   Append(elements, Heading(tag.level, subfrag.val)))
               [] tag.t = "List" ->
                    LET items == parse_list_items(toks, pos + 1, <<>>)
                    IN  IF ~items.ok THEN items
                        ELSE parse_until_end_event(toks, items.pos,
                                                   Append(elements, List(items.val)))
               [] tag.t = "BlockQuote" ->
                    LET subfrag == parse_until_end_event(toks, pos + 1, <<>>)
                    IN  IF ~subfrag.ok THEN subfrag
                        ELSE parse_until_end_event(toks, subfrag.pos,
                                                   Append(elements, BlockQuote(subfrag.val)))
               [] tag.t = "CodeBlock" ->
                    LET subfrag == parse_until_end_event(toks, pos + 1, <<>>)
                    IN  IF ~subfrag.ok THEN subfrag
                        ELSE parse_until_end_event(toks, subfrag.pos,
                                                   Append(elements, CodeBlock(subfrag.val)))
               [] tag.t \in {"Emphasis", "Strong", "Strikethrough"} ->
                    LET subfrag == parse_until_end_event(toks, pos + 1, <<>>)
                    IN  IF ~subfrag.ok THEN subfrag
                        ELSE parse_until_end_event(toks, subfrag.pos,
                                                   Append(elements, Formatting(tag.t, subfrag.val)))
               [] tag.t = "Link" ->
                    LET subfrag == parse_until_end_event(toks, pos + 1, <<>>)
                    IN  IF ~subfrag.ok THEN subfrag
                        ELSE parse_until_end_event(toks, subfrag.pos,
                                                   Append(elements, Link(tag.dest, subfrag.val)))
               [] tag.t = "Image" ->
                    LET subfrag == parse_until_end_event(toks, pos + 1, <<>>)
                    IN  IF ~subfrag.ok THEN subfrag
                        ELSE parse_until_end_event(toks, subfrag.pos,
                                                   Append(elements, Image(tag.dest, subfrag.val)))
               [] tag.t = "Table" ->
                    LET align_chars ==
                            [i \in 1..Len(tag.alignments) |-> AlignChar(tag.alignments[i])]
                        table == parse_table(toks, pos + 1, align_chars, <<>>, <<>>)
                    IN  IF ~table.ok THEN table
                        ELSE parse_until_end_event(toks, table.pos,
                                                   Append(elements, table.val))
               [] OTHER -> Err("unhandled parser event", pos + 1)
        [] OTHER -> Err("unhandled parser event", pos + 1)

\* A list builder that keeps only the item it has just built.
parse_list_items_keeps_last(toks, pos, items) ==
    IF pos > Len(toks) THEN Ok(items, pos)
    ELSE LET event == toks[pos] IN
      IF event.ev = "End" /\ event.tag.t = "List"
        THEN Ok(items, pos + 1)
      ELSE IF event.ev = "Start" /\ event.tag.t = "Item"
        THEN LET item_frag == parse_until_end_event(toks, pos + 1, <<>>)
             IN  IF ~item_frag.ok THEN item_frag
                 ELSE parse_list_items(toks, item_frag.pos, <<item_frag.val>>)
      ELSE Err("unexpected event while parsing list items", pos + 1)

parse_list_items(toks, pos, items) ==
    IF pos > Len(toks) THEN Ok(items, pos)
    ELSE LET event == toks[pos] IN
      IF event.ev = "End" /\ event.tag.t = "List"
        THEN Ok(items, pos + 1)
      ELSE IF event.ev = "Start" /\ event.tag.t = "Item"
        THEN LET item_frag == parse_until_end_event(toks, pos + 1, <<>>)
             IN  IF ~item_frag.ok THEN item_frag
                 ELSE parse_list_items(toks, item_frag.pos,
                                       Append(items, item_frag.val))
      ELSE Err("unexpected event while parsing list items", pos + 1)

RECURSIVE parse_loop(_, _, _)
RECURSIVE parse_loop_skips_append(_, _, _)
\* A top-level loop that does not append what an invocation produced.
parse_loop_skips_append(toks, pos, elements) ==
    LET subfrag == parse_until_end_event(toks, pos, <<>>)
    IN  IF ~subfrag.ok THEN subfrag
        ELSE IF subfrag.val = <<>> THEN Ok(elements, subfrag.pos)
        ELSE parse_loop_skips_append(toks, subfrag.pos, elements)

parse_loop(toks, pos, elements) ==
    LET subfrag == parse_until_end_event(toks, pos, <<>>)
    IN  IF ~subfrag.ok THEN subfrag
        ELSE IF subfrag.val = <<>> THEN Ok(elements, subfrag.pos)
        ELSE parse_loop(toks, subfrag.pos, elements \o subfrag.val)

parse(toks) == parse_loop(toks, 1, <<>>)

\* A Markdown file as load meets it: one that cannot be opened, one that
\* cannot be read as a string, or one whose text the tokenizer turns into
\* the events toks.
NoFile == [file |-> "missing"]
UnreadableFile == [file |-> "unreadable"]
MarkdownFile(toks) == [file |-> "read", events |-> toks]

\* let md_frag = match parse(&mut md_parser)
loaded(md_frag) ==
    IF ~md_frag.ok THEN Err("failed to parse Markdown file", md_frag.pos)
    ELSE md_frag

\* load: open the file, read it, build the fragment of its events.
load(md_file) ==
    IF md_file.file = "missing" THEN Err("failed to open Markdown file", 0)
    ELSE IF md_file.file = "unreadable" THEN Err("failed to read Markdown file", 0)
    ELSE loaded(parse(md_file.events))


(* ====================================================================== *)
(*                       texutil.rs: the renderer                         *)
(* ====================================================================== *)
\* The two variants frag_to_tex matches that md_ast.rs does not declare.
HtmlFragment(s) == [type |-> "HtmlFragment", text |-> s]
FootnoteRef(s) == [type |-> "FootnoteRef", text |-> s]

REPLACEMENT_CHARACTER == "U+FFFD"
LEFT_DOUBLE_QUOTE == "U+201C"
RIGHT_DOUBLE_QUOTE == "U+201D"
GRAVE_ACCENT == "U+0060"

\* The characters with the Unicode property White_Space. A character that
\* has no escape in a string is named by its code point, as the three
\* characters above are; the form feed is known under both names.
WHITE_SPACE ==
    {"\t", "\n", "U+000B", "\f", "U+000C", "\r", " ", "U+0085", "U+00A0",
     "U+1680", "U+2000", "U+2001", "U+2002", "U+2003", "U+2004", "U+2005",
     "U+2006", "U+2007", "U+2008", "U+2009", "U+200A", "U+2028", "U+2029",
     "U+202F", "U+205F", "U+3000"}

\* char::is_whitespace
IsWhitespace(c) == c \in WHITE_SPACE

TexOk(val) == [ok |-> TRUE, val |-> val, err |-> ""]
TexErr(msg) == [ok |-> FALSE, val |-> <<>>, err |-> msg]

\* One character of escape_tex: backslash, char, grave accent, backslash and
\* the character itself; or backslash, char, a straight double quote and the
\* four hex digits of the code point.
escape_char(c) ==
    IF c \in {"\\", "~", "{", "}", "#", "%", "$"}
      THEN <<"\\", "c", "h", "a", "r", GRAVE_ACCENT>> \o <<"\\", c>>
    ELSE IF c = REPLACEMENT_CHARACTER
      THEN <<"\\", "c", "h", "a", "r", "\"">> \o <<"F", "F", "F", "D">>
    ELSE <<c>>

RECURSIVE escape_tex(_)
escape_tex(text) ==
    IF text = <<>> THEN <<>>
    ELSE escape_char(Head(text)) \o escape_tex(Tail(text))

\* EDUCATED_QUOTE_RE, (?m)(^|.) followed by a straight double quote, matched
\* at position s of text: the length
\* of the match (0 if none). The alternation is tried in order: ^ (start of
\* text or just after a newline) before . (any character but a newline).
QuoteMatchAt(text, s) ==
    IF (s = 1 \/ text[s - 1] = "\n") /\ text[s] = "\"" THEN 1
    ELSE IF text[s] # "\n" /\ s + 1 <= Len(text) /\ text[s + 1] = "\"" THEN 2
    ELSE 0

\* The replacement closure: pre_char is capture group 1.
QuoteReplacement(pre_char) ==
    IF pre_char = <<>> \/ \A i \in 1..Len(pre_char) : IsWhitespace(pre_char[i])
      THEN pre_char \o <<LEFT_DOUBLE_QUOTE>>
    ELSE pre_char \o <<RIGHT_DOUBLE_QUOTE>>

\* Regex::replace_all: leftmost non-overlapping matches, scanning from pos.
RECURSIVE replace_all_from(_, _)
replace_all_from(text, pos) ==
    IF pos > Len(text) THEN <<>>
    ELSE LET n == QuoteMatchAt(text, pos) IN
         IF n = 0 THEN <<text[pos]>> \o replace_all_from(text, pos + 1)
         ELSE QuoteReplacement(SubSeq(text, pos, pos + n - 2))
              \o replace_all_from(text, pos + n)

educate_tex_quotes(text) == replace_all_from(text, 1)

(* ----------------------- the inline-code transducer ------------------- *)
\* A transducer step with the two run styles exchanged: a brace character
\* opens a brace-delimited run, any other character a delimiter-style run.
to_typing_step_styles_swapped(st, c) ==
    LET s1 == IF c \in {"{", "}"}
                THEN IF st.state = "Plusses"
                       THEN [state |-> "Closed", ret |-> st.ret \o <<"+">>]
                     ELSE st
              ELSE IF st.state = "Braces"
                       THEN [state |-> "Closed", ret |-> st.ret \o <<"}">>]
                     ELSE st
        s2 == IF s1.state = "Closed"
                THEN IF c \in {"{", "}"}
                       THEN [state |-> "Braces",
                             ret |-> s1.ret \o <<"\\", "t", "y", "p", "e", "{">>]
                     ELSE [state |-> "Plusses",
                           ret |-> s1.ret \o <<"\\", "t", "y", "p", "e", "+">>]
              ELSE s1
    IN  [state |-> s2.state, ret |-> Append(s2.ret, c)]

\* A transducer step that opens a run when none is open and never closes
\* one: the run opened for the first character holds all the others.
to_typing_step_never_splits(st, c) ==
    LET s2 == IF st.state = "Closed"
                THEN IF c \in {"{", "}"}
                       THEN [state |-> "Plusses", ret |-> st.ret \o <<"\\", "t", "y", "p", "e", "+">>]
                     ELSE [state |-> "Braces", ret |-> st.ret \o <<"\\", "t", "y", "p", "e", "{">>]
              ELSE st
    IN  [state |-> s2.state, ret |-> Append(s2.ret, c)]

\* One iteration of to_typing's loop over the characters: st is
\* [state, ret]; the character is pushed after the transition.
to_typing_step(st, c) ==
    LET s1 == IF c \in {"{", "}"}
                THEN IF st.state = "Braces"
                       THEN [state |-> "Closed", ret |-> st.ret \o <<"}">>]
                     ELSE st
              ELSE IF st.state = "Plusses"
                       THEN [state |-> "Closed", ret |-> st.ret \o <<"+">>]
                     ELSE st
        s2 == IF s1.state = "Closed"
                THEN IF c \in {"{", "}"}
                       THEN [state |-> "Plusses", ret |-> s1.ret \o <<"\\", "t", "y", "p", "e", "+">>]
                     ELSE [state |-> "Braces", ret |-> s1.ret \o <<"\\", "t", "y", "p", "e", "{">>]
              ELSE s1
    IN  [state |-> s2.state, ret |-> Append(s2.ret, c)]

\* An end of input that pushes no closing marker.
to_typing_final_no_closer(st) == st.ret

\* The closing marker of the final state.
to_typing_final(st) ==
    st.ret \o (CASE st.state = "Braces" -> <<"}">>
                 [] st.state = "Plusses" -> <<"+">>
                 [] st.state = "Closed" -> <<>>)

RECURSIVE to_typing_loop(_, _)
to_typing_loop(st, s) ==
    IF s = <<>> THEN st ELSE to_typing_loop(to_typing_step(st, Head(s)), Tail(s))

to_typing(s) == to_typing_final(to_typing_loop([state |-> "Closed", ret |-> <<>>], s))

(* ----------------------------- frag_to_tex ---------------------------- *)
RECURSIVE frag_to_collected_text(_)
frag_to_collected_text(f) ==
    IF f = <<>> THEN TexOk(<<>>)
    ELSE IF Head(f).type # "Text"
      THEN TexErr("unknown element type when collecting text")
    ELSE LET rest == frag_to_collected_text(Tail(f))
         IN  IF ~rest.ok THEN rest ELSE TexOk(Head(f).text \o rest.val)

RECURSIVE Repeat(_, _)
Repeat(s, n) == IF n <= 0 THEN <<>> ELSE s \o Repeat(s, n - 1)

Digit(d) ==
    CASE d = 0 -> "0" [] d = 1 -> "1" [] d = 2 -> "2" [] d = 3 -> "3"
      [] d = 4 -> "4" [] d = 5 -> "5" [] d = 6 -> "6" [] d = 7 -> "7"
      [] d = 8 -> "8" [] d = 9 -> "9"
RECURSIVE Decimal(_)
Decimal(n) == IF n < 10 THEN <<Digit(n)>> ELSE Decimal(n \div 10) \o <<Digit(n % 10)>>

\* html.replace: every newline becomes newline, percent, space.
RECURSIVE replace_newlines(_)
replace_newlines(s) ==
    IF s = <<>> THEN <<>>
    ELSE (IF Head(s) = "\n" THEN <<"\n", "%", " ">> ELSE <<Head(s)>>)
         \o replace_newlines(Tail(s))

AlignKeyword(alignment) ==
    CASE alignment = "l" -> <<"f", "l", "u", "s", "h", "l", "e", "f", "t">>
      [] alignment = "r" -> <<"f", "l", "u", "s", "h", "r", "i", "g", "h", "t">>
      [] alignment = "c" -> <<"m", "i", "d", "d", "l", "e">>
      [] OTHER -> <<>>

RECURSIVE frag_to_tex(_)
RECURSIVE frag_to_tex_each(_)

\* for (i, alignment) in table.alignments().iter().enumerate()
SetupTable(alignments) ==
    Concat([i \in 1..Len(alignments) |->
              IF AlignKeyword(alignments[i]) = <<>> THEN <<>>
              ELSE <<"\\", "s", "e", "t", "u", "p", "T", "A", "B", "L", "E", "[", "c", "]", "[">> \o Decimal(i) \o <<"]", "[", "a", "l", "i", "g", "n", "=">>
                   \o AlignKeyword(alignments[i]) \o <<"]", "\n">>])

\* The rows of one kind (t is TH or TD); the first failing cell fails it all.
TableRows(t, rows) ==
    LET cells == Concat(rows)
        texs == frag_to_tex_each(cells)
    IN  IF ~texs.ok THEN texs
        ELSE TexOk(Concat([r \in 1..Len(rows) |->
               <<"\\", "b", "T", "R", "\n">>
               \o Concat([c \in 1..Len(rows[r]) |->
                    <<"\\", "b">> \o t \o <<" ">>
                    \o frag_to_tex(rows[r][c]).val
                    \o <<" ", "\\", "e">> \o t \o <<"\n">>])
               \o <<"\\", "e", "T", "R", "\n">>]))

\* A Heading arm that does not skip level 1.
heading_to_tex_keeps_level1(elem) ==
    LET subtex == frag_to_tex(elem.frag)
    IN  IF ~subtex.ok THEN subtex
        ELSE TexOk(<<"\\">> \o Repeat(<<"s", "u", "b">>, elem.level - 1)
                   \o <<"s", "e", "c", "t", "i", "o", "n", "{">>
                   \o subtex.val \o <<"}", "\n">>)

\* The Heading arm: level 1 is skipped (continue), level n > 1 is a
\* sectioning command with n - 1 times sub before section.
heading_to_tex(elem) ==
    IF elem.level = 1 THEN TexOk(<<>>)
    ELSE LET subtex == frag_to_tex(elem.frag)
         IN  IF ~subtex.ok THEN subtex
             ELSE TexOk(<<"\\">> \o Repeat(<<"s", "u", "b">>, elem.level - 1)
                        \o <<"s", "e", "c", "t", "i", "o", "n", "{">>
                        \o subtex.val \o <<"}", "\n">>)

\* One arm of frag_to_tex's match: what the element appends to ret.
elem_to_tex(elem) ==
    CASE elem.type = "BlockQuote" ->
           LET subtex == frag_to_tex(elem.frag)
           IN  IF ~subtex.ok THEN subtex
               ELSE TexOk(<<"\\", "s", "t", "a", "r", "t", "b", "l", "o", "c", "k", "q", "u", "o", "t", "e", "\n">> \o subtex.val \o <<"\\", "s", "t", "o", "p", "b", "l", "o", "c", "k", "q", "u", "o", "t", "e", "\n", "\n">>)
      [] elem.type = "Code" -> TexOk(to_typing(elem.text))
      [] elem.type = "CodeBlock" ->
           LET subtex == frag_to_collected_text(elem.frag)
           IN  IF ~subtex.ok THEN subtex
               ELSE TexOk(<<"\\", "s", "t", "a", "r", "t", "t", "y", "p", "i", "n", "g", "\n">> \o subtex.val \o <<"\\", "s", "t", "o", "p", "t", "y", "p", "i", "n", "g", "\n", "\n">>)
      [] elem.type = "Formatting" ->
           LET subtex == frag_to_tex(elem.frag)
           IN  IF ~subtex.ok THEN subtex
               ELSE IF elem.format = "Strikethrough"
                 THEN TexOk(<<"\\", "o", "v", "e", "r", "s", "t", "r", "i", "k", "e", "{">> \o subtex.val \o <<"}">>)
               ELSE IF elem.format = "Emphasis"
                 THEN TexOk(<<"{">> \o <<"\\", "i", "t", " ">> \o subtex.val \o <<"}">>)
               ELSE IF elem.format = "Strong"
                 THEN TexOk(<<"{">> \o <<"\\", "b", "f", " ">> \o subtex.val \o <<"}">>)
               ELSE TexErr("unexpected formatting type")
      [] elem.type = "Heading" -> heading_to_tex(elem)
      [] elem.type = "Link" ->
           LET subtex == frag_to_tex(elem.frag)
           IN  IF ~subtex.ok THEN subtex
               ELSE TexOk(<<"\\", "g", "o", "t", "o", "{">> \o subtex.val \o <<"}", "[", "u", "r", "l", "(">> \o elem.url \o <<")", "]">>)
      [] elem.type = "Image" ->
           TexOk(<<"\\", "e", "x", "t", "e", "r", "n", "a", "l", "f", "i", "g", "u", "r", "e", "[">> \o elem.url \o <<"]">>)
      [] elem.type = "List" ->
           LET texs == frag_to_tex_each(elem.items)
           IN  IF ~texs.ok THEN texs
               ELSE TexOk(<<"\n", "\\", "s", "t", "a", "r", "t", "i", "t", "e", "m", "i", "z", "e", "\n">>
                          \o Concat([i \in 1..Len(elem.items) |->
                                       <<"\\", "i", "t", "e", "m", " ">> \o texs.val[i] \o <<"\n">>])
                          \o <<"\\", "s", "t", "o", "p", "i", "t", "e", "m", "i", "z", "e", "\n">>)
      [] elem.type = "Paragraph" ->
           LET subtex == frag_to_tex(elem.frag)
           IN  IF ~subtex.ok THEN subtex
               ELSE TexOk(subtex.val \o <<"\n", "\n">>)
      [] elem.type = "Table" ->
           LET head == TableRows(<<"T", "H">>, elem.header_rows)
               body == TableRows(<<"T", "D">>, elem.body_rows)
           IN  IF ~head.ok THEN head
               ELSE IF ~body.ok THEN body
               ELSE TexOk(SetupTable(elem.alignments) \o <<"\\", "b", "T", "A", "B", "L", "E", "\n">>
                          \o head.val \o body.val \o <<"\\", "e", "T", "A", "B", "L", "E", "\n", "\n">>)
      [] elem.type = "Text" ->
           TexOk(educate_tex_quotes(escape_tex(elem.text)))
      [] elem.type = "HtmlFragment" ->
           TexOk(<<"%", " ">> \o replace_newlines(elem.text) \o <<"\n">>)
      [] elem.type = "FootnoteRef" ->
           TexOk(<<"\\", "n", "o", "t", "e", "[">> \o elem.text \o <<"]">>)
      [] OTHER -> TexErr("unknown element type")

\* frag_to_tex of each fragment of a sequence, in order, stopping at the
\* first error (the ? in the loops over items and cells).
frag_to_tex_each(frags) ==
    IF frags = <<>> THEN TexOk(<<>>)
    ELSE LET first == frag_to_tex(Head(frags))
         IN  IF ~first.ok THEN first
             ELSE LET rest == frag_to_tex_each(Tail(frags))
                  IN  IF ~rest.ok THEN rest
                      ELSE TexOk(<<first.val>> \o rest.val)

frag_to_tex(f) ==
    IF f = <<>> THEN TexOk(<<>>)
    ELSE LET first == elem_to_tex(Head(f))
         IN  IF ~first.ok THEN first
             ELSE LET rest == frag_to_tex(Tail(f))
                  IN  IF ~rest.ok THEN rest
                      ELSE TexOk(first.val \o rest.val)

(* ====================================================================== *)
(*                    toc.rs: the navigation extractor                    *)
(* ====================================================================== *)
Part == [kind |-> "Part", depth |-> 0]
Chapter == [kind |-> "Chapter", depth |-> 0]
Section(i) == [kind |-> "Section", depth |-> i]

\* TOCLevel::tex_string
tex_string(level) ==
    CASE level.kind = "Part" -> <<"p", "a", "r", "t">>
      [] level.kind = "Chapter" -> <<"c", "h", "a", "p", "t", "e", "r">>
      [] level.kind = "Section" ->
           Repeat(<<"s", "u", "b">>, level.depth)
           \o <<"s", "e", "c", "t", "i", "o", "n">>

\* TOCEntry::new
TOCEntry(level, entry_title, path) ==
    [level |-> level, title |-> entry_title, path |-> path, child_entries |-> <<>>]

\* TableOfContents::new followed by the three appends of load_toc
TableOfContents(toc_title, front, body, back) ==
    [title |-> toc_title, front_matter_sections |-> front,
     body_matter_sections |-> body, appendix_sections |-> <<>>,
     back_matter_sections |-> back]

TocOk(val) == [ok |-> TRUE, val |-> val, err |-> ""]
TocErr(msg) == [ok |-> FALSE, val |-> <<>>, err |-> msg]

RECURSIVE links_to_toc_from(_, _, _)
RECURSIVE sub_entries(_, _)

RECURSIVE links_to_toc_from_first_entry(_, _, _)
\* A loop that gives the entries of a sub-list to the first entry built so
\* far instead of the last.
links_to_toc_from_first_entry(elems, section_level, entries) ==
    IF elems = <<>> THEN TocOk(entries)
    ELSE LET elem == Head(elems) IN
      CASE elem.type = "Link" ->
             LET title_tex == frag_to_tex(elem.frag)
             IN  IF ~title_tex.ok THEN TocErr(title_tex.err)
                 ELSE links_to_toc_from_first_entry(Tail(elems), section_level,
                        Append(entries,
                               TOCEntry(Section(section_level), title_tex.val, elem.url)))
        [] elem.type = "List" ->
             IF entries = <<>> THEN TocErr("sublist without an entry")
             ELSE LET subs == sub_entries(elem.items, section_level + 1)
                  IN  IF ~subs.ok THEN subs
                      ELSE links_to_toc_from_first_entry(Tail(elems), section_level,
                             [entries EXCEPT ![1].child_entries = @ \o subs.val])
        [] OTHER -> TocErr("unexpected TOC list item")

\* links_to_toc's loop, with the entries built so far.
links_to_toc_from(elems, section_level, entries) ==
    IF elems = <<>> THEN TocOk(entries)
    ELSE LET elem == Head(elems) IN
      CASE elem.type = "Link" ->
             LET title_tex == frag_to_tex(elem.frag)
             IN  IF ~title_tex.ok THEN TocErr(title_tex.err)
                 ELSE links_to_toc_from(Tail(elems), section_level,
                        Append(entries,
                               TOCEntry(Section(section_level), title_tex.val, elem.url)))
        [] elem.type = "List" ->
             \* last entry has subentries
             IF entries = <<>> THEN TocErr("sublist without an entry")
             ELSE LET subs == sub_entries(elem.items, section_level + 1)
                  IN  IF ~subs.ok THEN subs
                      ELSE links_to_toc_from(Tail(elems), section_level,
                             [entries EXCEPT ![Len(entries)].child_entries
                                                = @ \o subs.val])
        [] OTHER -> TocErr("unexpected TOC list item")

RECURSIVE sub_entries_same_level(_, _)
\* Sub-list items converted at the level of their parent entry.
sub_entries_same_level(items, section_level) ==
    IF items = <<>> THEN TocOk(<<>>)
    ELSE LET first == links_to_toc_from(Head(items), section_level - 1, <<>>)
         IN  IF ~first.ok THEN first
             ELSE LET rest == sub_entries_same_level(Tail(items), section_level)
                  IN  IF ~rest.ok THEN rest
                      ELSE TocOk(first.val \o rest.val)

\* for subitem in items: links_to_toc(subitem.elements(), section_level + 1)?,
\* appended to the last entry's children in order.
sub_entries(items, section_level) ==
    IF items = <<>> THEN TocOk(<<>>)
    ELSE LET first == links_to_toc_from(Head(items), section_level, <<>>)
         IN  IF ~first.ok THEN first
             ELSE LET rest == sub_entries(Tail(items), section_level)
                  IN  IF ~rest.ok THEN rest
                      ELSE TocOk(first.val \o rest.val)

links_to_toc(elems, section_level) == links_to_toc_from(elems, section_level, <<>>)

\* The result of load_toc's steps: the entries to append, or the error that
\* load_toc returns (its context and the underlying message).
LoadOk(val) == [ok |-> TRUE, val |-> val, context |-> "", err |-> ""]
LoadErr(context, msg) == [ok |-> FALSE, val |-> <<>>, context |-> context, err |-> msg]

\* The Paragraph arm of load_toc: the entries of the paragraph's elements in
\* order. A Link is converted alone; a List has the elements of all its
\* items flattened into one sequence (flat_map) and converted together.
RECURSIVE paragraph_toc_elems(_)
paragraph_toc_elems(parelems) ==
    IF parelems = <<>> THEN LoadOk(<<>>)
    ELSE LET parelem == Head(parelems) IN
      IF parelem.type \notin {"Link", "List"}
        THEN LoadErr("unexpected TOC paragraph item", "")
      ELSE LET toc_elems_res ==
                  IF parelem.type = "Link" THEN links_to_toc(<<parelem>>, 0)
                  ELSE links_to_toc(Concat(parelem.items), 0)
           IN  IF ~toc_elems_res.ok
                 THEN LoadErr("failed to parse paragraph TOC links", toc_elems_res.err)
               ELSE LET rest == paragraph_toc_elems(Tail(parelems))
                    IN  IF ~rest.ok THEN rest
                        ELSE LoadOk(toc_elems_res.val \o rest.val)

\* The List arm of load_toc: each item converted on its own at depth 0.
RECURSIVE list_toc_elems(_)
list_toc_elems(entries) ==
    IF entries = <<>> THEN LoadOk(<<>>)
    ELSE LET toc_elems == links_to_toc(Head(entries), 0)
         IN  IF ~toc_elems.ok
               THEN LoadErr("failed to parse list TOC links", toc_elems.err)
             ELSE LET rest == list_toc_elems(Tail(entries))
                  IN  IF ~rest.ok THEN rest
                      ELSE LoadOk(toc_elems.val \o rest.val)

(* ---------------------------- SpecToc --------------------------------- *)
\* load_toc: the load of SUMMARY.md, then one top-level manifest element per
\* step.
TocLoading == toc_result.state = "loading"
TocFail(res) == [state |-> "err", context |-> res.context, err |-> res.err]

\* match md_ast::load(&toc_path): Ok(ast) => ast, Err(err) => return Err(..)
TocLoaded(toc_frag) ==
    IF ~toc_frag.ok
      THEN /\ toc_result' = TocFail(LoadErr("failed to parse TOC", toc_frag.err))
           /\ UNCHANGED manifest
      ELSE /\ manifest' = toc_frag.val
           /\ toc_result' = [state |-> "loading"]

\* let toc_frag = match md_ast::load(&toc_path)
TocLoad ==
    /\ toc_result.state = "start"
    /\ TocLoaded(load(summary_md))
    /\ UNCHANGED <<summary_md, toc_i, title, front_matter_done,
                   front_matter_sections, body_sections, back_matter_sections>>
    /\ UNCHANGED notTocVars

\* MarkdownElement::Heading(1, frag)
TocHeading ==
    /\ TocLoading
    /\ toc_i < Len(manifest)
    /\ manifest[toc_i + 1].type = "Heading" /\ manifest[toc_i + 1].level = 1
    /\ LET t == frag_to_tex(manifest[toc_i + 1].frag) IN
         IF t.ok
           THEN /\ title' = t.val
                /\ toc_i' = toc_i + 1
                /\ UNCHANGED toc_result
           ELSE /\ toc_result' = TocFail(LoadErr("failed to parse title", t.err))
                /\ UNCHANGED <<title, toc_i>>
    /\ UNCHANGED <<summary_md, manifest, front_matter_done, front_matter_sections, body_sections,
                   back_matter_sections>>
    /\ UNCHANGED notTocVars

\* MarkdownElement::Paragraph(frag)
TocParagraph ==
    /\ TocLoading
    /\ toc_i < Len(manifest)
    /\ manifest[toc_i + 1].type = "Paragraph"
    /\ LET toc_elems == paragraph_toc_elems(manifest[toc_i + 1].frag) IN
         IF toc_elems.ok
           THEN /\ IF front_matter_done
                     THEN /\ back_matter_sections' = back_matter_sections \o toc_elems.val
                          /\ UNCHANGED front_matter_sections
                     ELSE /\ front_matter_sections' = front_matter_sections \o toc_elems.val
                          /\ UNCHANGED back_matter_sections
                /\ toc_i' = toc_i + 1
                /\ UNCHANGED toc_result
           ELSE /\ toc_result' = TocFail(toc_elems)
                /\ UNCHANGED <<toc_i, front_matter_sections, back_matter_sections>>
    /\ UNCHANGED <<summary_md, manifest, title, front_matter_done, body_sections>>
    /\ UNCHANGED notTocVars

\* A List arm that does not set front_matter_done.
TocList_forgets_front_matter_done ==
    /\ TocLoading
    /\ toc_i < Len(manifest)
    /\ manifest[toc_i + 1].type = "List"
    /\ UNCHANGED front_matter_done
    /\ LET toc_elems == list_toc_elems(manifest[toc_i + 1].items) IN
         IF toc_elems.ok
           THEN /\ body_sections' = body_sections \o toc_elems.val
                /\ toc_i' = toc_i + 1
                /\ UNCHANGED toc_result
           ELSE /\ toc_result' = TocFail(toc_elems)
                /\ UNCHANGED <<toc_i, body_sections>>
    /\ UNCHANGED <<summary_md, manifest, title, front_matter_sections, back_matter_sections>>
    /\ UNCHANGED notTocVars

\* MarkdownElement::List(entries)
TocList ==
    /\ TocLoading
    /\ toc_i < Len(manifest)
    /\ manifest[toc_i + 1].type = "List"
    \* front matter are paragraphs before the first list
    /\ front_matter_done' = TRUE
    /\ LET toc_elems == list_toc_elems(manifest[toc_i + 1].items) IN
         IF toc_elems.ok
           THEN /\ body_sections' = body_sections \o toc_elems.val
                /\ toc_i' = toc_i + 1
                /\ UNCHANGED toc_result
           ELSE /\ toc_result' = TocFail(toc_elems)
                /\ UNCHANGED <<toc_i, body_sections>>
    /\ UNCHANGED <<summary_md, manifest, title, front_matter_sections, back_matter_sections>>
    /\ UNCHANGED notTocVars

\* any other element
\* A catch-all arm that skips the element and goes on.
TocUnexpected_skips ==
    /\ TocLoading
    /\ toc_i < Len(manifest)
    /\ LET elem == manifest[toc_i + 1] IN
         /\ elem.type \notin {"Paragraph", "List"}
         /\ ~(elem.type = "Heading" /\ elem.level = 1)
    /\ toc_i' = toc_i + 1
    /\ UNCHANGED <<summary_md, manifest, toc_result, title, front_matter_done,
                   front_matter_sections, body_sections, back_matter_sections>>
    /\ UNCHANGED notTocVars

TocUnexpected ==
    /\ TocLoading
    /\ toc_i < Len(manifest)
    /\ LET elem == manifest[toc_i + 1] IN
         /\ elem.type \notin {"Paragraph", "List"}
         /\ ~(elem.type = "Heading" /\ elem.level = 1)
    /\ toc_result' = TocFail(LoadErr("unexpected TOC item", ""))
    /\ UNCHANGED <<summary_md, manifest, toc_i, title, front_matter_done, front_matter_sections,
                   body_sections, back_matter_sections>>
    /\ UNCHANGED notTocVars

\* after the loop: build the TableOfContents and return it
TocReturn ==
    /\ TocLoading
    /\ toc_i = Len(manifest)
    /\ toc_result' = [state |-> "ok",
                      toc |-> TableOfContents(title, front_matter_sections,
                                              body_sections, back_matter_sections)]
    /\ UNCHANGED <<summary_md, manifest, toc_i, title, front_matter_done, front_matter_sections,
                   body_sections, back_matter_sections>>
    /\ UNCHANGED notTocVars

(* ====================================================================== *)
(*                         main.rs: the driver                            *)
(* ====================================================================== *)
\* section.path() as output_section reads it: Some(path) or None.
SomePath(path) == [some |-> TRUE, path |-> path]
NonePath == [some |-> FALSE, path |-> <<>>]

\* What md_ast::load returns for a section path: Ok(fragment) or Err.
Loaded(f) == [ok |-> TRUE, frag |-> f]
LoadFailed == [ok |-> FALSE, frag |-> <<>>]

\* the preamble written by output_tex
Preamble(toc_title) ==
    <<"\\", "s", "e", "t", "u", "p", "i", "n", "t", "e", "r", "a", "c", "t", "i", "o", "n", "[", "t", "i", "t", "l", "e", "=", "{">> \o toc_title \o <<"}", "]", "\n", "\n", "\\", "s", "t", "a", "r", "t", "t", "e", "x", "t", "\n", "\n", "\\", "m", "d", "c", "o", "n", "t", "e", "x", "t", "p", "l", "a", "c", "e", "t", "o", "c", "\n", "\n">>

\* The sections vector with appendices and back matter exchanged.
matter_swapped(i) ==
    CASE i = 1 -> [tex |-> <<"f", "r", "o", "n", "t", "m", "a", "t", "t", "e", "r">>, sections |-> toc.front_matter_sections]
      [] i = 2 -> [tex |-> <<"b", "o", "d", "y", "m", "a", "t", "t", "e", "r">>, sections |-> toc.body_matter_sections]
      [] i = 3 -> [tex |-> <<"b", "a", "c", "k", "m", "a", "t", "t", "e", "r">>, sections |-> toc.back_matter_sections]
      [] i = 4 -> [tex |-> <<"a", "p", "p", "e", "n", "d", "i", "c", "e", "s">>, sections |-> toc.appendix_sections]
\* the vector sections of output_tex: the four matters in their fixed order
matter(i) ==
    CASE i = 1 -> [tex |-> <<"f", "r", "o", "n", "t", "m", "a", "t", "t", "e", "r">>, sections |-> toc.front_matter_sections]
      [] i = 2 -> [tex |-> <<"b", "o", "d", "y", "m", "a", "t", "t", "e", "r">>, sections |-> toc.body_matter_sections]
      [] i = 3 -> [tex |-> <<"a", "p", "p", "e", "n", "d", "i", "c", "e", "s">>, sections |-> toc.appendix_sections]
      [] i = 4 -> [tex |-> <<"b", "a", "c", "k", "m", "a", "t", "t", "e", "r">>, sections |-> toc.back_matter_sections]
NumMatters == 4

StartMatter(tex) == <<"\n", "\\", "s", "t", "a", "r", "t">> \o tex \o <<"\n">>
StopMatter(tex) == <<"\n", "\\", "s", "t", "o", "p">> \o tex \o <<"\n">>
Postamble == <<"\\", "s", "t", "o", "p", "t", "e", "x", "t", "\n">>

\* the heading written by output_section
SectionHeading(section) ==
    <<"\n", "\\">> \o tex_string(section.level) \o <<"{">> \o section.title
    \o <<"}", "\n">>

Frame(section) == [section |-> section, pc |-> "heading", child_i |-> 1]
TopFrame == call_stack[Len(call_stack)]
Pop == SubSeq(call_stack, 1, Len(call_stack) - 1)
SetTop(f) == [call_stack EXCEPT ![Len(call_stack)] = f]

\* output_tex returns code after printing msg (no message if msg is empty).
TexReturns(code, msg) ==
    /\ out_pc' = "returned"
    /\ exit_code' = code
    /\ stderr' = IF msg = "" THEN stderr ELSE Append(stderr, msg)

\* The running output_section call returns code after printing msg.
SectionReturns(code, msg) ==
    /\ call_stack' = Pop
    /\ section_code' = code
    /\ stderr' = IF msg = "" THEN stderr ELSE Append(stderr, msg)

\* The characters a string of the model holds as themselves: the printable
\* ASCII characters and the four control characters with an escape. Every
\* other character is named U+ and the hexadecimal digits of its code
\* point.
ASCII ==
    {"\t", "\n", "\f", "\r", " ", "!", "\"", "#", "$", "%", "&", "'", "(",
     ")", "*", "+", ",", "-", ".", "/", "0", "1", "2", "3", "4", "5", "6",
     "7", "8", "9", ":", ";", "<", "=", ">", "?", "@", "A", "B", "C", "D",
     "E", "F", "G", "H", "I", "J", "K", "L", "M", "N", "O", "P", "Q", "R",
     "S", "T", "U", "V", "W", "X", "Y", "Z", "[", "\\", "]", "^", "_", "a",
     "b", "c", "d", "e", "f", "g", "h", "i", "j", "k", "l", "m", "n", "o",
     "p", "q", "r", "s", "t", "u", "v", "w", "x", "y", "z", "{", "|", "}",
     "~"}

HexDigits ==
    <<"0", "1", "2", "3", "4", "5", "6", "7", "8", "9", "A", "B", "C", "D",
      "E", "F">>
HexValue(d) == (CHOOSE v \in 1..16 : HexDigits[v] = d) - 1
RECURSIVE HexNumber(_)
HexNumber(digits) ==
    IF Len(digits) <= 1 THEN HexValue(digits)
    ELSE 16 * HexNumber(SubSeq(digits, 1, Len(digits) - 1))
         + HexValue(SubSeq(digits, Len(digits), Len(digits)))

\* The code point of a character named by it; no other string has one.
code_point(c) ==
    CHOOSE n \in {HexNumber(SubSeq(c, 3, Len(c)))} : SubSeq(c, 1, 2) = "U+"

\* A byte above 0x7F is named by its value.
Byte(n) == "0x" \o HexDigits[(n \div 16) + 1] \o HexDigits[(n % 16) + 1]

\* char::encode_utf8: the bytes of the code point code, which is above
\* 0x7F: two bytes below 0x800, three below 0x10000, four from there on.
encode_utf8(code) ==
    IF code < 2048
      THEN <<Byte(192 + (code \div 64)), Byte(128 + (code % 64))>>
    ELSE IF code < 65536
      THEN <<Byte(224 + (code \div 4096)),
             Byte(128 + ((code \div 64) % 64)),
             Byte(128 + (code % 64))>>
    ELSE <<Byte(240 + (code \div 262144)),
           Byte(128 + ((code \div 4096) % 64)),
           Byte(128 + ((code \div 64) % 64)),
           Byte(128 + (code % 64))>>

\* The UTF-8 encoding of a character. A character below U+0080 is one
\* byte, which keeps the character's name; any other is the two to four
\* bytes of its code point.
utf8(c) ==
    IF c \in ASCII THEN <<c>>
    ELSE IF code_point(c) < 128 THEN <<c>>
    ELSE encode_utf8(code_point(c))

\* str::as_bytes: the bytes write! hands to the file for a text.
as_bytes(text) == Concat([i \in 1..Len(text) |-> utf8(text[i])])

\* What a write! that fails has put into the file: write_all hands the
\* bytes of the text to the file in order and stops at the first error, so
\* any number of them, fewer than all, are written; the last character
\* written may be cut short. A write of no bytes makes no call that can
\* fail.
FailedWrite(bytes) == {SubSeq(bytes, 1, k) : k \in 0..(Len(bytes) - 1)}

(* ------------------------- output_tex --------------------------------- *)
\* write! of the preamble
WritePreamble ==
    /\ out_pc = "preamble"
    /\ \/ /\ output_file' = output_file \o as_bytes(Preamble(toc.title))
          /\ out_pc' = "matter"
          /\ UNCHANGED <<stderr, exit_code>>
       \/ \E written \in FailedWrite(as_bytes(Preamble(toc.title))) :
              /\ output_file' = output_file \o written
              /\ TexReturns(1, "error writing preamble")
    /\ UNCHANGED <<toc, book, matter_i, section_i, call_stack, section_code>>
    /\ UNCHANGED notOutVars

\* if matter_sections.is_empty() { continue; }
MatterSkip ==
    /\ out_pc = "matter"
    /\ matter_i <= NumMatters
    /\ matter(matter_i).sections = <<>>
    /\ matter_i' = matter_i + 1
    /\ UNCHANGED <<toc, book, output_file, stderr, out_pc, section_i, call_stack,
                   section_code, exit_code>>
    /\ UNCHANGED notOutVars

\* write! of the opening of a non-empty matter
MatterStart ==
    /\ out_pc = "matter"
    /\ matter_i <= NumMatters
    /\ matter(matter_i).sections # <<>>
    /\ \/ /\ output_file' = output_file \o as_bytes(StartMatter(matter(matter_i).tex))
          /\ out_pc' = "sections"
          /\ section_i' = 1
          /\ UNCHANGED <<stderr, exit_code>>
       \/ \E written \in FailedWrite(as_bytes(StartMatter(matter(matter_i).tex))) :
              /\ output_file' = output_file \o written
              /\ TexReturns(1, "error writing opening")
              /\ UNCHANGED section_i
    /\ UNCHANGED <<toc, book, matter_i, call_stack, section_code>>
    /\ UNCHANGED notOutVars

\* let code = output_section(output_file, section, book_path)
SectionCall ==
    /\ out_pc = "sections"
    /\ section_i <= Len(matter(matter_i).sections)
    /\ call_stack' = <<Frame(matter(matter_i).sections[section_i])>>
    /\ out_pc' = "wait"
    /\ UNCHANGED <<toc, book, output_file, stderr, matter_i, section_i,
                   section_code, exit_code>>
    /\ UNCHANGED notOutVars

\* if code != 0 { return code; }
SectionDone ==
    /\ out_pc = "wait"
    /\ call_stack = <<>>
    /\ IF section_code # 0
         THEN /\ TexReturns(section_code, "")
              /\ UNCHANGED section_i
         ELSE /\ section_i' = section_i + 1
              /\ out_pc' = "sections"
              /\ UNCHANGED <<stderr, exit_code>>
    /\ UNCHANGED <<toc, book, output_file, matter_i, call_stack, section_code>>
    /\ UNCHANGED notOutVars

\* write! of the end of the matter
MatterStop ==
    /\ out_pc = "sections"
    /\ section_i > Len(matter(matter_i).sections)
    /\ \/ /\ output_file' = output_file \o as_bytes(StopMatter(matter(matter_i).tex))
          /\ out_pc' = "matter"
          /\ matter_i' = matter_i + 1
          /\ UNCHANGED <<stderr, exit_code>>
       \/ \E written \in FailedWrite(as_bytes(StopMatter(matter(matter_i).tex))) :
              /\ output_file' = output_file \o written
              /\ TexReturns(1, "error writing end")
              /\ UNCHANGED matter_i
    /\ UNCHANGED <<toc, book, section_i, call_stack, section_code>>
    /\ UNCHANGED notOutVars

\* write! of the postamble, return 0
WritePostamble ==
    /\ out_pc = "matter"
    /\ matter_i > NumMatters
    /\ \/ /\ output_file' = output_file \o as_bytes(Postamble)
          /\ TexReturns(0, "")
       \/ \E written \in FailedWrite(as_bytes(Postamble)) :
              /\ output_file' = output_file \o written
              /\ TexReturns(1, "error writing postamble")
    /\ UNCHANGED <<toc, book, matter_i, section_i, call_stack, section_code>>
    /\ UNCHANGED notOutVars

(* ----------------------- output_section ------------------------------- *)
InSection(pc) == call_stack # <<>> /\ TopFrame.pc = pc

\* write! of the section heading
OutHeading ==
    /\ InSection("heading")
    /\ \/ /\ output_file' = output_file \o as_bytes(SectionHeading(TopFrame.section))
          /\ call_stack' = SetTop([TopFrame EXCEPT !.pc = "content"])
          /\ UNCHANGED <<stderr, section_code>>
       \/ \E written \in FailedWrite(as_bytes(SectionHeading(TopFrame.section))) :
              /\ output_file' = output_file \o written
              /\ SectionReturns(1, "failed to output section heading")
    /\ UNCHANGED <<toc, book, out_pc, matter_i, section_i, exit_code>>
    /\ UNCHANGED notOutVars

\* if let Some(sp) = section.path(): load, render and write the document
OutContent ==
    /\ InSection("content")
    /\ LET sp == TopFrame.section.path IN
         IF ~sp.some
           THEN /\ call_stack' = SetTop([TopFrame EXCEPT !.pc = "children"])
                /\ UNCHANGED <<output_file, stderr, section_code>>
         ELSE IF ~book[sp.path].ok
           THEN /\ SectionReturns(1, "failed to parse section")
                /\ UNCHANGED output_file
         ELSE LET section_tex == frag_to_tex(book[sp.path].frag) IN
           IF ~section_tex.ok
             THEN /\ SectionReturns(1, "failed to transform section to TeX")
                  /\ UNCHANGED output_file
           ELSE \/ /\ output_file' = output_file \o as_bytes(section_tex.val)
                   /\ call_stack' = SetTop([TopFrame EXCEPT !.pc = "children"])
                   /\ UNCHANGED <<stderr, section_code>>
                \/ \E written \in FailedWrite(as_bytes(section_tex.val)) :
                       /\ output_file' = output_file \o written
                       /\ SectionReturns(1, "failed to output section")
    /\ UNCHANGED <<toc, book, out_pc, matter_i, section_i, exit_code>>
    /\ UNCHANGED notOutVars

\* let code = output_section(output_file, child_section, book_path)
OutChildCall ==
    /\ InSection("children")
    /\ TopFrame.child_i <= Len(TopFrame.section.child_entries)
    /\ call_stack' = Append(SetTop([TopFrame EXCEPT !.pc = "wait"]),
                            Frame(TopFrame.section.child_entries[TopFrame.child_i]))
    /\ UNCHANGED <<toc, book, output_file, stderr, out_pc, matter_i, section_i,
                   section_code, exit_code>>
    /\ UNCHANGED notOutVars

\* A caller that goes on to the next child whatever code the child returned.
OutChildReturned_ignores_code ==
    /\ InSection("wait")
    /\ call_stack' = SetTop([TopFrame EXCEPT !.pc = "children",
                                             !.child_i = @ + 1])
    /\ UNCHANGED <<stderr, section_code>>
    /\ UNCHANGED <<toc, book, output_file, out_pc, matter_i, section_i, exit_code>>
    /\ UNCHANGED notOutVars

\* if code != 0 { return 1; }
OutChildReturned ==
    /\ InSection("wait")
    /\ IF section_code # 0
         THEN SectionReturns(1, "")
         ELSE /\ call_stack' = SetTop([TopFrame EXCEPT !.pc = "children",
                                                       !.child_i = @ + 1])
              /\ UNCHANGED <<stderr, section_code>>
    /\ UNCHANGED <<toc, book, output_file, out_pc, matter_i, section_i, exit_code>>
    /\ UNCHANGED notOutVars

\* the children are done: return 0
OutReturn ==
    /\ InSection("children")
    /\ TopFrame.child_i > Len(TopFrame.section.child_entries)
    /\ SectionReturns(0, "")
    /\ UNCHANGED <<toc, book, output_file, out_pc, matter_i, section_i, exit_code>>
    /\ UNCHANGED notOutVars

(* ---------------- the event streams handed to the parser -------------- *)
\* The tokenizer's event stream for a tree: what pulldown_cmark emits for a
\* document with that structure. A soft line break is its own event.
AlignOf(c) ==
    CASE c = " " -> "None"
      [] c = "l" -> "Left"
      [] c = "c" -> "Center"
      [] c = "r" -> "Right"

RECURSIVE EventsOfFrag(_)
RECURSIVE EventsOfElem(_)
Bracket(tag, body) == <<EvStart(tag)>> \o body \o <<EvEnd(tag)>>

EventsOfRow(tag, row) ==
    Bracket(tag, Concat([i \in 1..Len(row) |->
                            Bracket(Tag("TableCell"), EventsOfFrag(row[i]))]))

EventsOfElem(e) ==
    CASE e.type = "Text" ->
           IF e.text = <<"\n">> THEN <<EvSoftBreak>> ELSE <<EvText(e.text)>>
      [] e.type = "Code" -> <<EvCode(e.text)>>
      [] e.type = "Paragraph" -> Bracket(Tag("Paragraph"), EventsOfFrag(e.frag))
      [] e.type = "Heading" -> Bracket(TagHeading(e.level), EventsOfFrag(e.frag))
      [] e.type = "BlockQuote" -> Bracket(Tag("BlockQuote"), EventsOfFrag(e.frag))
      [] e.type = "CodeBlock" -> Bracket(Tag("CodeBlock"), EventsOfFrag(e.frag))
      [] e.type = "Formatting" -> Bracket(Tag(e.format), EventsOfFrag(e.frag))
      [] e.type = "Link" -> Bracket(TagLink(e.url), EventsOfFrag(e.frag))
      [] e.type = "Image" -> Bracket(TagImage(e.url), EventsOfFrag(e.frag))
      [] e.type = "List" ->
           Bracket(Tag("List"),
                   Concat([i \in 1..Len(e.items) |->
                              Bracket(Tag("Item"), EventsOfFrag(e.items[i]))]))
      [] e.type = "Table" ->
           Bracket(TagTable([i \in 1..Len(e.alignments) |-> AlignOf(e.alignments[i])]),
                   Concat([i \in 1..Len(e.header_rows) |->
                              EventsOfRow(Tag("TableHead"), e.header_rows[i])])
                   \o Concat([i \in 1..Len(e.body_rows) |->
                              EventsOfRow(Tag("TableRow"), e.body_rows[i])]))

EventsOfFrag(f) == Concat([i \in 1..Len(f) |-> EventsOfElem(f[i])])

\* Bounded document trees: every construct the builder has a case for, nested
\* to MaxDepth, with up to MaxWidth leaves per fragment and items per list.
Leaves == {Text(<<"a">>), Code(<<"b">>), Text(<<"\n">>)}
LeafFrags == SeqsUpTo(Leaves, MaxWidth)
CellFrags == {<<>>, <<Text(<<"a">>)>>}
Rows == SeqsUpTo(CellFrags, MaxWidth)
BodyRows ==
    {<<>>, << <<<<Text(<<"a">>)>>>> >>, << <<<<>>, <<Text(<<"a">>)>>>>, <<<<Text(<<"a">>)>>>> >>}
Tables ==
    {Table(al, hr, br) : al \in {<<>>, <<"l", " ">>},
                         hr \in SeqsUpTo(Rows, 1), br \in BodyRows}

Wrappers(F) ==
    {Paragraph(f) : f \in F} \cup {Heading(l, f) : l \in 1..2, f \in F}
    \cup {BlockQuote(f) : f \in F} \cup {CodeBlock(f) : f \in F}
    \cup {Formatting(k, f) : k \in {"Emphasis", "Strong", "Strikethrough"}, f \in F}
    \cup {Link(<<"u">>, f) : f \in F} \cup {Image(<<"v">>, f) : f \in F}

\* The wrappers used around content that itself holds a nested construct.
OuterWrappers(F) ==
    {Paragraph(f) : f \in F} \cup {Link(<<"u">>, f) : f \in F}

RECURSIVE Elems(_)
\* Content that holds a nested construct of depth up to d: the construct
\* alone, or with a leaf before and after it.
NestedFrags(d) ==
    {<<e>> : e \in Elems(d) \ Leaves}
    \cup {<<Text(<<"a">>), e, Code(<<"b">>)>> : e \in Elems(d) \ Leaves}
\* Content of a construct at depth d: any leaf run, or nested content.
ContentFrags(d) ==
    IF d = 0 THEN LeafFrags ELSE LeafFrags \cup NestedFrags(d)
ItemFrags(d) ==
    IF d = 0 THEN SeqsUpTo(Leaves, 1)
    ELSE SeqsUpTo(Leaves, 1)
         \cup {<<Link(<<"u">>, <<Text(<<"a">>)>>)>>,
               <<Link(<<"u">>, <<Text(<<"a">>)>>), List(<< <<Code(<<"b">>)>> >>)>>,
               <<Paragraph(<<Text(<<"a">>)>>)>>}
Elems(d) ==
    IF d = 0 THEN Leaves
    ELSE Leaves \cup Wrappers(LeafFrags) \cup Tables
         \cup {List(items) : items \in SeqsUpTo(ItemFrags(d - 1), MaxWidth)}
         \cup (IF d = 1 THEN {} ELSE OuterWrappers(NestedFrags(d - 1)))

TopFrags ==
    ContentFrags(MaxDepth)
    \cup {<<h, e>> : h \in {Heading(1, <<Text(<<"a">>)>>), List(<< <<>> >>)},
                     e \in Elems(2)}

\* Arbitrary short event sequences: events the builder has no case for, and
\* end events with no construct open.
RawEvents ==
    {EvText(<<"a">>), EvSoftBreak, EvHtml(<<"h">>), EvFootnoteReference(<<"n">>),
     EvStart(Tag("Paragraph")), EvEnd(Tag("Paragraph")),
     EvStart(Tag("List")), EvStart(Tag("Item"))}
RawStreams == SeqsUpTo(RawEvents, MaxRawLen)

WellNestedStreams == {EventsOfFrag(f) : f \in TopFrags}
ParseInputs == WellNestedStreams \cup RawStreams

(* --------------------------- SpecParse -------------------------------- *)
ParseIdle == tokens = <<>> /\ parse_result = NotRun
TexIdle == frag = <<>> /\ tex_result = NotRun
TypingIdle ==
    /\ typing_input = <<>>
    /\ typing_i = 0
    /\ typing_state = "Closed"
    /\ typing_ret = <<>>
    /\ typing_done = FALSE
TocStart ==
    /\ toc_i = 0
    /\ title = <<>>
    /\ front_matter_done = FALSE
    /\ front_matter_sections = <<>>
    /\ body_sections = <<>>
    /\ back_matter_sections = <<>>
    /\ manifest = <<>>
    /\ toc_result = [state |-> "start"]
TocIdle == summary_md = NoFile /\ TocStart
OutStart ==
    /\ output_file = <<>>
    /\ stderr = <<>>
    /\ out_pc = "preamble"
    /\ matter_i = 1
    /\ section_i = 1
    /\ call_stack = <<>>
    /\ section_code = 0
    /\ exit_code = 0
OutIdle ==
    /\ toc = [title |-> <<>>, front_matter_sections |-> <<>>,
              body_matter_sections |-> <<>>, appendix_sections |-> <<>>,
              back_matter_sections |-> <<>>]
    /\ book = [p \in {} |-> LoadFailed]
    /\ OutStart

InitParse ==
    /\ tokens \in ParseInputs
    /\ parse_result = NotRun
    /\ TexIdle
    /\ TypingIdle
    /\ TocIdle
    /\ OutIdle

Parse ==
    /\ parse_result = NotRun
    /\ parse_result' = [state |-> "done", res |-> parse(tokens)]
    /\ UNCHANGED <<tokens, notParseVars>>

NextParse == Parse
SpecParse == InitParse /\ [][NextParse]_vars

(* ---------------------------- SpecTex --------------------------------- *)
TextChars == {"a", "\"", " ", "\n", "\f", "~", REPLACEMENT_CHARACTER}
TextFrags == {<<Text(s)>> : s \in SeqsUpTo(TextChars, MaxTextLen)}

HeadingContents ==
    {<<>>, <<Text(<<"a">>)>>, <<Code(<<"b">>)>>,
     <<Formatting("Emphasis", <<Text(<<"a">>)>>)>>,
     <<CodeBlock(<<Code(<<"b">>)>>)>>}
Around ==
    {<<>>, <<Paragraph(<<Text(<<"a">>)>>)>>, <<Heading(2, <<Text(<<"a">>)>>)>>,
     <<Heading(1, <<Code(<<"b">>)>>)>>, <<CodeBlock(<<Code(<<"b">>)>>)>>}
HeadingFrags ==
    {pre \o <<Heading(l, c)>> \o post :
        pre \in Around, l \in 1..MaxLevel, c \in HeadingContents, post \in Around}

ElementFrags ==
    {<<e>> : e \in Elems(1)}
    \cup {<<HtmlFragment(<<"h", "\n", "i">>)>>, <<FootnoteRef(<<"n">>)>>}

TexInputs == TextFrags \cup HeadingFrags \cup ElementFrags

InitTex ==
    /\ frag \in TexInputs
    /\ tex_result = NotRun
    /\ ParseIdle
    /\ TypingIdle
    /\ TocIdle
    /\ OutIdle

Render ==
    /\ tex_result = NotRun
    /\ tex_result' = [state |-> "done", res |-> frag_to_tex(frag)]
    /\ UNCHANGED <<frag, notTexVars>>

NextTex == Render
SpecTex == InitTex /\ [][NextTex]_vars

(* --------------------------- SpecTyping ------------------------------- *)
\* to_typing run one character at a time.
CodeChars == {"a", "b", "c", "{", "}", "+"}
CodeInputs == SeqsUpTo(CodeChars, MaxCodeLen)

InitTyping ==
    /\ typing_input \in CodeInputs
    /\ typing_i = 0
    /\ typing_state = "Closed"
    /\ typing_ret = <<>>
    /\ typing_done = FALSE
    /\ ParseIdle
    /\ TexIdle
    /\ TocIdle
    /\ OutIdle

TypingStep(c) ==
    LET st == to_typing_step([state |-> typing_state, ret |-> typing_ret], c)
    IN  /\ typing_i' = typing_i + 1
        /\ typing_state' = st.state
        /\ typing_ret' = st.ret
        /\ UNCHANGED <<typing_input, typing_done, notTypingVars>>

\* for c in s.chars(), the arm for a brace character
TypeBrace ==
    /\ ~typing_done
    /\ typing_i < Len(typing_input)
    /\ typing_input[typing_i + 1] \in {"{", "}"}
    /\ TypingStep(typing_input[typing_i + 1])

\* for c in s.chars(), the arm for any other character
TypeOther ==
    /\ ~typing_done
    /\ typing_i < Len(typing_input)
    /\ typing_input[typing_i + 1] \notin {"{", "}"}
    /\ TypingStep(typing_input[typing_i + 1])

\* after the loop: push the final state's closing marker and return
TypeFinish ==
    /\ ~typing_done
    /\ typing_i = Len(typing_input)
    /\ typing_ret' = to_typing_final([state |-> typing_state, ret |-> typing_ret])
    /\ typing_done' = TRUE
    /\ UNCHANGED <<typing_input, typing_i, typing_state, notTypingVars>>

NextTyping == TypeBrace \/ TypeOther \/ TypeFinish
SpecTyping == InitTyping /\ [][NextTyping]_vars

\* Manifests: the top-level elements a SUMMARY.md fragment is made of.
TocLink(c) == Link(<<c, ".", "m", "d">>, <<Text(<<c>>)>>)
ManifestParagraphs ==
    {Paragraph(<<TocLink("p")>>),
     Paragraph(<<TocLink("q"), TocLink("r")>>),
     Paragraph(<<List(<< <<TocLink("s")>>, <<List(<< <<TocLink("t")>> >>)>> >>)>>),
     Paragraph(<<List(<< <<List(<< <<TocLink("t")>> >>)>> >>)>>),
     Paragraph(<<Text(<<"x">>)>>)}
ManifestLists ==
    {List(<< <<TocLink("a")>>, <<TocLink("b"), List(<< <<TocLink("c")>> >>)>> >>),
     List(<< <<TocLink("d")>>, <<List(<< <<TocLink("e")>> >>)>> >>),
     List(<< <<TocLink("f"),
               List(<< <<TocLink("g"), TocLink("m"), List(<< <<TocLink("h")>> >>)>>,
                        <<TocLink("i")>> >>)>> >>),
     List(<< <<TocLink("j")>>,
             <<TocLink("k"), List(<< <<TocLink("l"), Text(<<"x">>)>> >>)>> >>)}
ManifestHeadings ==
    {Heading(1, <<Text(<<"B", "o", "o", "k">>)>>), Heading(2, <<Text(<<"x">>)>>)}
ManifestElems == ManifestHeadings \cup ManifestParagraphs \cup ManifestLists
\* The elements load_toc stops at with an error, and the others.
FailingElems ==
    {Heading(2, <<Text(<<"x">>)>>),
     Paragraph(<<List(<< <<List(<< <<TocLink("t")>> >>)>> >>)>>),
     Paragraph(<<Text(<<"x">>)>>),
     List(<< <<TocLink("d")>>, <<List(<< <<TocLink("e")>> >>)>> >>),
     List(<< <<TocLink("j")>>,
             <<TocLink("k"), List(<< <<TocLink("l"), Text(<<"x">>)>> >>)>> >>)}
PassingElems == ManifestElems \ FailingElems
\* The manifests: up to MaxManifestLen elements, at most one of them an
\* element load_toc stops at, with at most one element after it (load_toc
\* reads none after the first element it stops at).
PassingManifests(n) == SeqsUpTo(PassingElems, n)
UnreadTails(n) == PassingManifests(IF n < 1 THEN n ELSE 1)

\* The SUMMARY.md files: the event streams of the manifests, and besides
\* them two streams holding an event the builder has no case for and the
\* files that cannot be opened or read.
ElemEvents == [e \in ManifestElems |-> EventsOfElem(e)]
SummaryOf(m) == MarkdownFile(Concat([i \in 1..Len(m) |-> ElemEvents[m[i]]]))
BrokenSummaries ==
    {MarkdownFile(<<EvStart(TagHeading(1)), EvText(<<"B">>),
                    EvEnd(TagHeading(1)), EvHtml(<<"<", "b", "r", ">">>)>>),
     MarkdownFile(<<EvRule>>), NoFile, UnreadableFile}

InitToc ==
    /\ \/ \E m \in PassingManifests(MaxManifestLen) : summary_md = SummaryOf(m)
       \/ \E pre \in PassingManifests(MaxManifestLen - 1), x \in FailingElems :
             \E post \in UnreadTails(MaxManifestLen - 1 - Len(pre)) :
                summary_md = SummaryOf(pre \o <<x>> \o post)
       \/ summary_md \in BrokenSummaries
    /\ TocStart
    /\ OutIdle
    /\ ParseIdle
    /\ TexIdle
    /\ TypingIdle

NextToc == TocLoad \/ TocHeading \/ TocParagraph \/ TocList \/ TocUnexpected \/ TocReturn
SpecToc == InitToc /\ [][NextToc]_vars

(* ---------------------------- SpecOut --------------------------------- *)
\* Navigation trees handed to output_tex, and the documents of the book.
DocPaths == {<<"a">>, <<"b">>}
DocA == Loaded(<<Heading(1, <<Text(<<"A">>)>>), Paragraph(<<Text(<<"a">>)>>)>>)
DocB == Loaded(<<Paragraph(<<Text(<<"\"", "b">>)>>)>>)
Unrenderable == Loaded(<<CodeBlock(<<Code(<<"x">>)>>)>>)
BookOf(da, db) == [p \in DocPaths |-> IF p = <<"a">> THEN da ELSE db]
Books ==
    {BookOf(DocA, DocB), BookOf(LoadFailed, DocB), BookOf(Unrenderable, DocB),
     BookOf(DocA, LoadFailed)}

OutEntry(level, path, children) ==
    [level |-> level, title |-> <<"T">>, path |-> path, child_entries |-> children]
\* The children of a body entry: up to MaxChildren of them, alternately an
\* entry with a child of its own and a childless entry.
ChildEntries ==
    [i \in 1..MaxChildren |->
        IF i % 2 = 1
          THEN OutEntry(Section(1), SomePath(<<"b">>),
                        <<OutEntry(Section(2), SomePath(<<"a">>), <<>>)>>)
          ELSE OutEntry(Section(1), SomePath(<<"a">>), <<>>)]
BodyEntries ==
    {OutEntry(Section(0), SomePath(<<"b">>), SubSeq(ChildEntries, 1, k)) :
        k \in 0..MaxChildren}
    \cup {OutEntry(Chapter, NonePath, <<OutEntry(Section(0), SomePath(<<"a">>), <<>>)>>)}
\* The titles of the front and appendix entries hold characters of two,
\* three and four bytes.
FrontEntry ==
    [OutEntry(Section(0), SomePath(<<"b">>), <<>>)
        EXCEPT !.title = <<LEFT_DOUBLE_QUOTE, "U+00E9">>]
AppendixEntry ==
    [OutEntry(Part, NonePath, <<>>) EXCEPT !.title = <<"U+1F600">>]
BackEntry == OutEntry(Section(0), SomePath(<<"a">>), <<>>)
OutTocs ==
    {[title |-> <<"B">>, front_matter_sections |-> m[1], body_matter_sections |-> bm,
      appendix_sections |-> m[2], back_matter_sections |-> m[3]] :
        bm \in SeqsUpTo(BodyEntries, MaxSections),
        m \in {<< <<>>, <<>>, <<>> >>, << <<FrontEntry>>, <<>>, <<BackEntry>> >>,
               << <<>>, <<AppendixEntry>>, <<BackEntry>> >>,
               << <<FrontEntry>>, <<AppendixEntry>>, <<>> >>}}

InitOut ==
    /\ toc \in OutTocs
    /\ book \in Books
    /\ OutStart
    /\ ParseIdle
    /\ TexIdle
    /\ TypingIdle
    /\ TocIdle

NextOut ==
    \/ WritePreamble \/ MatterSkip \/ MatterStart \/ SectionCall \/ SectionDone
    \/ MatterStop \/ WritePostamble
    \/ OutHeading \/ OutContent \/ OutChildCall \/ OutChildReturned \/ OutReturn
SpecOut == InitOut /\ [][NextOut]_vars

(* ====================================================================== *)
(*                              the claims                                *)
(* ====================================================================== *)
ParseDone == parse_result # NotRun
TexDone == tex_result # NotRun

\* Measures of an event stream, taken from the stream alone.
Opened(toks, i) ==
    Cardinality({j \in 1..i : toks[j].ev = "Start"})
    - Cardinality({j \in 1..i : toks[j].ev = "End"})
StreamDepth(toks) ==
    IF toks = <<>> THEN 0
    ELSE CHOOSE d \in 0..Len(toks) :
           /\ \E i \in 1..Len(toks) : Opened(toks, i) = d
           /\ \A i \in 1..Len(toks) : Opened(toks, i) <= d
TopLevelCount(toks) ==
    Cardinality({i \in 1..Len(toks) : toks[i].ev # "End" /\ Opened(toks, i - 1) = 0})

\* The same measures of a fragment: a list opens the list and its items, a
\* table the table, its rows and their cells.
Max(S) == IF S = {} THEN 0 ELSE CHOOSE m \in S : \A x \in S : x <= m
RECURSIVE FragDepth(_)
ElemDepth(e) ==
    CASE e.type \in {"Text", "Code"} -> 0
      [] e.type = "List" ->
           Max({1} \cup {2 + FragDepth(e.items[i]) : i \in 1..Len(e.items)})
      [] e.type = "Table" ->
           LET rows == e.header_rows \o e.body_rows
               cells == Concat(rows)
           IN  Max({1} \cup {2 : r \in 1..Len(rows)}
                   \cup {3 + FragDepth(cells[k]) : k \in 1..Len(cells)})
      [] OTHER -> 1 + FragDepth(e.frag)
FragDepth(f) == Max({ElemDepth(f[i]) : i \in 1..Len(f)})

\* C1: for every well-nested stream of recognized constructs parse succeeds,
\* consumes the whole stream, and returns the fragment whose own event
\* stream is the input: the same top-level element count and the same
\* nesting depth, every construct holding the elements between its start and
\* its matching end.
C1_ParseMirrorsStream ==
    (ParseDone /\ tokens \in WellNestedStreams) =>
        LET res == parse_result.res IN
        /\ res.ok
        /\ res.pos = Len(tokens) + 1
        /\ EventsOfFrag(res.val) = tokens
        /\ Len(res.val) = TopLevelCount(tokens)
        /\ FragDepth(res.val) = StreamDepth(tokens)

\* C1 witness: a parsed stream nested three deep with two top-level elements.
C1_Witness ==
    /\ ParseDone
    /\ tokens \in WellNestedStreams
    /\ StreamDepth(tokens) >= 3
    /\ parse_result.res.ok
    /\ Len(parse_result.res.val) = 2
    /\ \E i \in 1..2 : /\ parse_result.res.val[i].type = "List"
                       /\ Len(parse_result.res.val[i].items) = 2

\* C5 (as claimed): every straight double quote of a Text becomes exactly
\* one curly quote, opening at the start of a line or after whitespace,
\* closing otherwise, and every other character is kept.
PlainQuoteChars == {"a", "\"", " ", "\n"}
ExpectedQuotes(s) ==
    [i \in 1..Len(s) |->
        IF s[i] # "\"" THEN s[i]
        ELSE IF i = 1 \/ s[i - 1] = "\n" \/ IsWhitespace(s[i - 1])
          THEN LEFT_DOUBLE_QUOTE
        ELSE RIGHT_DOUBLE_QUOTE]
IsPlainText(f) ==
    /\ Len(f) = 1
    /\ f[1].type = "Text"
    /\ \A i \in 1..Len(f[1].text) : f[1].text[i] \in PlainQuoteChars
C5_EveryQuoteEducated ==
    (TexDone /\ IsPlainText(frag)) =>
        /\ tex_result.res.ok
        /\ tex_result.res.val = ExpectedQuotes(frag[1].text)

\* C6: a level-1 heading renders to nothing; a heading of level n > 1 renders
\* to a backslash, n - 1 times sub, section, and its rendered content in
\* braces; a fragment renders as it does with its level-1 headings removed.
SubPrefix(n) == [i \in 1..(3 * (n - 1)) |-> <<"s", "u", "b">>[((i - 1) % 3) + 1]]
IsLevel1Heading(e) == e.type = "Heading" /\ e.level = 1
NotLevel1Heading(e) == ~IsLevel1Heading(e)
C6_HeadingRendering ==
    TexDone =>
        LET res == tex_result.res
            part == [i \in 1..Len(frag) |-> frag_to_tex(<<frag[i]>>)]
        IN  /\ \A i \in 1..Len(frag) :
                  frag[i].type = "Heading" =>
                    LET content == frag_to_tex(frag[i].frag) IN
                    /\ frag[i].level = 1 => part[i] = TexOk(<<>>)
                    /\ (frag[i].level > 1 /\ content.ok) =>
                          part[i] = TexOk(<<"\\">> \o SubPrefix(frag[i].level)
                                          \o <<"s", "e", "c", "t", "i", "o", "n", "{">>
                                          \o content.val \o <<"}", "\n">>)
            /\ (\A i \in 1..Len(frag) : part[i].ok) =>
                  /\ res.ok
                  /\ res.val = Concat([i \in 1..Len(frag) |-> part[i].val])
            /\ res = frag_to_tex(SelectSeq(frag, NotLevel1Heading))

\* C6 witness: a level-1 heading followed by a level-3 heading, rendered.
C6_Witness ==
    /\ TexDone
    /\ Len(frag) >= 2
    /\ IsLevel1Heading(frag[1])
    /\ frag[2].type = "Heading" /\ frag[2].level = 3
    /\ tex_result.res.ok
    /\ tex_result.res.val # <<>>

\* C7 (as claimed): a stream of text, raw-markup and footnote-reference
\* events builds; each raw-markup event gives an HtmlFragment leaf and each
\* footnote reference a FootnoteRef leaf, carrying the payload.
IsLeafStream(toks) ==
    \A i \in 1..Len(toks) : toks[i].ev \in {"Text", "Html", "FootnoteReference"}
LeafOf(event) ==
    CASE event.ev = "Text" -> Text(event.s)
      [] event.ev = "Html" -> HtmlFragment(event.s)
      [] event.ev = "FootnoteReference" -> FootnoteRef(event.s)
C7_RawMarkupAndFootnoteLeaves ==
    (ParseDone /\ IsLeafStream(tokens)) =>
        /\ parse_result.res.ok
        /\ parse_result.res.val = [i \in 1..Len(tokens) |-> LeafOf(tokens[i])]

\* C8 (as claimed): a rendered Text carries, in place of each U+FFFD, the
\* escape backslash char, straight double quote, FFFD, unchanged by the
\* smart-quote step.
ReplacementEscape == <<"\\", "c", "h", "a", "r", "\"", "F", "F", "F", "D">>
IsReplacementText(f) ==
    /\ Len(f) = 1
    /\ f[1].type = "Text"
    /\ \A i \in 1..Len(f[1].text) : f[1].text[i] \in {"a", " ", REPLACEMENT_CHARACTER}
C8_ReplacementCharacterEscape ==
    (TexDone /\ IsReplacementText(frag)) =>
        /\ tex_result.res.ok
        /\ tex_result.res.val =
             Concat([i \in 1..Len(frag[1].text) |->
                        IF frag[1].text[i] = REPLACEMENT_CHARACTER
                          THEN ReplacementEscape ELSE <<frag[1].text[i]>>])

\* The runs of a transducer output, read back from its markers: each run is
\* an opening marker (backslash type, then an opening brace or a plus), the
\* characters up to the first closing character of that style, and the
\* closing character. Anything else is reported as a malformed run.
TypeMarker == <<"\\", "t", "y", "p", "e">>
RECURSIVE RunsFrom(_, _)
RunsFrom(ret, pos) ==
    IF pos > Len(ret) THEN <<>>
    ELSE IF pos + 5 > Len(ret) \/ SubSeq(ret, pos, pos + 4) # TypeMarker
              \/ ret[pos + 5] \notin {"{", "+"}
      THEN <<[style |-> "malformed", content |-> <<>>]>>
    ELSE LET style == IF ret[pos + 5] = "{" THEN "brace" ELSE "delimiter"
             closer == IF ret[pos + 5] = "{" THEN "}" ELSE "+"
             ends == {k \in (pos + 6)..Len(ret) : ret[k] = closer}
         IN  IF ends = {} THEN <<[style |-> "malformed", content |-> <<>>]>>
             ELSE LET k == CHOOSE e \in ends : \A x \in ends : e <= x
                  IN  <<[style |-> style, content |-> SubSeq(ret, pos + 6, k - 1)]>>
                      \o RunsFrom(ret, k + 1)
Runs(ret) == RunsFrom(ret, 1)
Run(style, content) == [style |-> style, content |-> content]

ABC == <<"a", "{", "b", "}", "c">>

\* C4 (as claimed): for the input a{b}c the transducer opens a
\* delimiter-style run for a, switches to a brace run at the opening brace,
\* stays in it through b and the closing brace, opens a delimiter-style run
\* for c and closes it at the end: three runs, a, {b} and c.
C4_ThreeRunsClaimed ==
    typing_input = ABC =>
        /\ (typing_i = 1) => typing_state = "Plusses"
        /\ (typing_i \in {2, 3}) => typing_state = "Braces"
        /\ (typing_i = 5 /\ ~typing_done) => typing_state = "Plusses"
        /\ typing_done =>
             typing_ret = TypeMarker \o <<"+", "a", "+">>
                          \o TypeMarker \o <<"{", "{", "b", "}", "}">>
                          \o TypeMarker \o <<"+", "c", "+">>

\* C4 (amended): for the input a{b}c the transducer opens a brace run for a,
\* closes it and opens a delimiter-style run at the opening brace, closes
\* that and opens a brace run for b, closes that and opens a delimiter-style
\* run at the closing brace, closes that and opens a brace run for c, and
\* closes it at the end: five runs, a, {, b, } and c, each closed by its own
\* marker.
C4_FiveRuns ==
    typing_input = ABC =>
        /\ (typing_i \in {1, 3, 5}) => typing_state = "Braces"
        /\ (typing_i \in {2, 4}) => typing_state = "Plusses"
        /\ (typing_i = 1) => Runs(typing_ret \o <<"}">>) = <<Run("brace", <<"a">>)>>
        /\ (typing_i = 2) =>
              Runs(typing_ret \o <<"+">>)
                = <<Run("brace", <<"a">>), Run("delimiter", <<"{">>)>>
        /\ typing_done =>
              Runs(typing_ret)
                = <<Run("brace", <<"a">>), Run("delimiter", <<"{">>),
                    Run("brace", <<"b">>), Run("delimiter", <<"}">>),
                    Run("brace", <<"c">>)>>

\* C4 witness: the transducer has returned for a{b}c.
C4_Witness == typing_input = ABC /\ typing_done /\ typing_ret # <<>>

\* Whether a top-level List comes before the i-th manifest element.
ListBefore(i) == \E j \in 1..(i - 1) : manifest[j].type = "List"

\* The link destinations of an element in document order, and the source
\* paths of entries in pre-order.
RECURSIVE LinkUrls(_)
LinkUrls(f) ==
    Concat([i \in 1..Len(f) |->
              CASE f[i].type = "Link" -> <<f[i].url>>
                [] f[i].type = "List" ->
                     Concat([k \in 1..Len(f[i].items) |-> LinkUrls(f[i].items[k])])
                [] f[i].type = "Paragraph" -> LinkUrls(f[i].frag)
                [] OTHER -> <<>>])
RECURSIVE EntryPaths(_)
EntryPaths(entries) ==
    Concat([i \in 1..Len(entries) |->
              <<entries[i].path>> \o EntryPaths(entries[i].child_entries)])

\* The paragraphs among the first n manifest elements that come before
\* (after = FALSE) or after (after = TRUE) the first top-level List.
ParagraphsOfGroup(n, after) ==
    SelectSeq([i \in 1..n |-> [at |-> i, elem |-> manifest[i]]],
              LAMBDA x : x.elem.type = "Paragraph" /\ (ListBefore(x.at) <=> after))
GroupUrls(n, after) ==
    LET ps == ParagraphsOfGroup(n, after)
    IN  Concat([k \in 1..Len(ps) |-> LinkUrls(<<ps[k].elem>>)])
GroupCount(n, after) == Len(GroupUrls(n, after))

ExampleManifest ==
    <<Heading(1, <<Text(<<"B", "o", "o", "k">>)>>),
      Paragraph(<<TocLink("p")>>),
      List(<< <<TocLink("a")>>, <<TocLink("b"), List(<< <<TocLink("c")>> >>)>> >>),
      Paragraph(<<TocLink("p")>>)>>

\* C2: the entries of a top-level Paragraph go to front matter if no
\* top-level List comes before it and to back matter otherwise, in manifest
\* order within each group; front matter does not grow once a top-level List
\* has been handled; and the manifest of the spec's example gives title
\* Book, one front-matter entry, two body entries of which the second has
\* one child, one back-matter entry and no appendix.
C2_FrontAndBackMatter ==
    /\ EntryPaths(front_matter_sections) = GroupUrls(toc_i, FALSE)
    /\ EntryPaths(back_matter_sections) = GroupUrls(toc_i, TRUE)
    /\ \A n \in 1..toc_i :
          manifest[n].type = "List" =>
             EntryPaths(front_matter_sections) = GroupUrls(n, FALSE)
    /\ toc_result.state = "ok" =>
          /\ toc_result.toc.front_matter_sections = front_matter_sections
          /\ toc_result.toc.back_matter_sections = back_matter_sections
          /\ toc_i = Len(manifest)
    /\ (toc_result.state = "ok" /\ manifest = ExampleManifest) =>
          LET t == toc_result.toc IN
          /\ t.title = <<"B", "o", "o", "k">>
          /\ Len(t.front_matter_sections) = 1
          /\ Len(t.body_matter_sections) = 2
          /\ Len(t.body_matter_sections[2].child_entries) = 1
          /\ Len(t.back_matter_sections) = 1
          /\ Len(t.appendix_sections) = 0

\* C2 witness: a manifest with paragraphs on both sides of a top-level List
\* has been extracted, with entries in front, body and back matter.
C2_Witness ==
    /\ toc_result.state = "ok"
    /\ \E i \in 1..Len(manifest) :
          /\ manifest[i].type = "Paragraph" /\ ListBefore(i)
          /\ \E j \in 1..(i - 1) : manifest[j].type = "Paragraph" /\ ~ListBefore(j)
    /\ Len(toc_result.toc.front_matter_sections) >= 2
    /\ Len(toc_result.toc.body_matter_sections) >= 1
    /\ Len(toc_result.toc.back_matter_sections) >= 1

\* A sub-list with no entry before it in its own list item: in some item,
\* at any depth, a List element with no Link element before it.
RECURSIVE OrphanSublistIn(_)
OrphanSublistIn(items) ==
    \E k \in 1..Len(items) :
       \E n \in 1..Len(items[k]) :
          /\ items[k][n].type = "List"
          /\ \/ \A j \in 1..(n - 1) : items[k][j].type # "Link"
             \/ OrphanSublistIn(items[k][n].items)
HasOrphanSublist(m) ==
    \E i \in 1..Len(m) :
       \/ m[i].type = "List" /\ OrphanSublistIn(m[i].items)
       \/ /\ m[i].type = "Paragraph"
          /\ \E n \in 1..Len(m[i].frag) :
                m[i].frag[n].type = "List" /\ OrphanSublistIn(m[i].frag[n].items)

\* C3 (as claimed): a manifest holding a sub-list with no entry before it at
\* its own level never yields a navigation tree; when that sub-list is the
\* manifest's only element out of shape the error is "sublist without an
\* entry".
C3_OrphanSublistFails ==
    HasOrphanSublist(manifest) =>
        /\ toc_result.state # "ok"
        /\ (toc_result.state = "err" /\ Len(manifest) = 1) =>
              toc_result.err = "sublist without an entry"

\* The writes of a run in which nothing fails, in order: the preamble; for
\* each non-empty group, in the order front matter, body matter, appendices,
\* back matter, its start marker, its entries and its stop marker; the
\* end-document marker. An entry is its heading, then its document if it has
\* a source path, then its children by the same rule.
Marker(text) == [kind |-> "marker", text |-> text, path |-> <<>>, depth |-> 0]
Document(path, depth) == [kind |-> "doc", text |-> <<>>, path |-> path, depth |-> depth]
RECURSIVE EntryWrites(_, _)
EntryWrites(entry, depth) ==
    <<Marker(SectionHeading(entry))>>
    \o (IF entry.path.some THEN <<Document(entry.path.path, depth)>> ELSE <<>>)
    \o Concat([i \in 1..Len(entry.child_entries) |->
                  EntryWrites(entry.child_entries[i], depth + 1)])
GroupWrites(name, entries) ==
    IF entries = <<>> THEN <<>>
    ELSE <<Marker(<<"\n", "\\", "s", "t", "a", "r", "t">> \o name \o <<"\n">>)>>
         \o Concat([i \in 1..Len(entries) |-> EntryWrites(entries[i], 0)])
         \o <<Marker(<<"\n", "\\", "s", "t", "o", "p">> \o name \o <<"\n">>)>>
Schedule ==
    <<Marker(Preamble(toc.title))>>
    \o GroupWrites(<<"f", "r", "o", "n", "t", "m", "a", "t", "t", "e", "r">>,
                   toc.front_matter_sections)
    \o GroupWrites(<<"b", "o", "d", "y", "m", "a", "t", "t", "e", "r">>,
                   toc.body_matter_sections)
    \o GroupWrites(<<"a", "p", "p", "e", "n", "d", "i", "c", "e", "s">>,
                   toc.appendix_sections)
    \o GroupWrites(<<"b", "a", "c", "k", "m", "a", "t", "t", "e", "r">>,
                   toc.back_matter_sections)
    \o <<Marker(<<"\\", "s", "t", "o", "p", "t", "e", "x", "t", "\n">>)>>

DocumentFails(w) ==
    /\ w.kind = "doc"
    /\ ~book[w.path].ok \/ ~frag_to_tex(book[w.path].frag).ok
WrittenFor(w) ==
    as_bytes(IF w.kind = "doc" THEN frag_to_tex(book[w.path].frag).val ELSE w.text)
WrittenUpTo(sched, n) == Concat([k \in 1..n |-> WrittenFor(sched[k])])
FailingWrites(sched) == {k \in 1..Len(sched) : DocumentFails(sched[k])}
FirstFailing(sched) ==
    CHOOSE k \in FailingWrites(sched) : \A j \in FailingWrites(sched) : k <= j
DocumentFailures == {"failed to parse section", "failed to transform section to TeX"}

\* C9: a run that returns 0 has written exactly the preamble, then each
\* non-empty group in the order front matter, body matter, appendices, back
\* matter between its start and stop markers, with every entry in pre-order
\* (heading, document, children), then the end-document marker.
C9_OutputOrder ==
    (out_pc = "returned" /\ exit_code = 0) =>
        LET sched == Schedule IN
        /\ FailingWrites(sched) = {}
        /\ output_file = WrittenUpTo(sched, Len(sched))

\* C9 witness: a successful run over a tree with front matter, appendices
\* and a body entry that has a grandchild.
C9_Witness ==
    /\ out_pc = "returned" /\ exit_code = 0
    /\ toc.front_matter_sections # <<>>
    /\ toc.appendix_sections # <<>>
    /\ \E i \in 1..Len(toc.body_matter_sections) :
          LET e == toc.body_matter_sections[i] IN
          \E j \in 1..Len(e.child_entries) : e.child_entries[j].child_entries # <<>>

\* C10: once the document of an entry has failed to load or to render, the
\* output holds exactly what was written before it (everything of the
\* entries before it, and the failing entry's heading) and stays so: no later
\* entry, stop marker or end-document marker; and the run returns non-zero.
C10_StopsAtFailingDocument ==
    /\ out_pc = "returned" =>
          (exit_code = 0 => FailingWrites(Schedule) = {})
    /\ (stderr # <<>> /\ stderr[1] \in DocumentFailures) =>
          LET sched == Schedule
              failing == FailingWrites(sched)
          IN  /\ failing # {}
              /\ output_file = WrittenUpTo(sched, FirstFailing(sched) - 1)
              /\ Len(stderr) = 1
              /\ out_pc = "returned" => exit_code = 1

\* C10 witness: a run has stopped at a failing document of a nested entry,
\* after the document of an earlier entry was written.
C10_Witness ==
    /\ out_pc = "returned" /\ exit_code = 1
    /\ stderr # <<>> /\ stderr[1] \in DocumentFailures
    /\ LET sched == Schedule IN
       /\ FailingWrites(sched) # {}
       /\ sched[FirstFailing(sched)].depth >= 1
       /\ \E k \in 1..(FirstFailing(sched) - 1) : sched[k].kind = "doc"

\* Elements outside the recognised shapes. In a list item, at any depth: an
\* element that is neither a Link nor a List. At top level: a Heading of a
\* level other than 1, an element that is no Heading, Paragraph or List, a
\* Paragraph holding an element that is neither a Link nor a List, or a
\* Paragraph list or top-level List with such an item element.
RECURSIVE OutOfShapeItems(_)
OutOfShapeItems(items) ==
    \E k \in 1..Len(items) :
       \E n \in 1..Len(items[k]) :
          \/ items[k][n].type \notin {"Link", "List"}
          \/ items[k][n].type = "List" /\ OutOfShapeItems(items[k][n].items)
OutOfShape(elem) ==
    CASE elem.type = "Heading" -> elem.level # 1
      [] elem.type = "List" -> OutOfShapeItems(elem.items)
      [] elem.type = "Paragraph" ->
           \E n \in 1..Len(elem.frag) :
              \/ elem.frag[n].type \notin {"Link", "List"}
              \/ elem.frag[n].type = "List" /\ OutOfShapeItems(elem.frag[n].items)
      [] OTHER -> TRUE
OutOfShapeAt == {i \in 1..Len(manifest) : OutOfShape(manifest[i])}
FirstOutOfShape == CHOOSE i \in OutOfShapeAt : \A j \in OutOfShapeAt : i <= j

\* C11: a manifest with an element out of shape never yields a navigation
\* tree; the extractor never gets past the first such element; the step that
\* meets it returns an error at once; and after an error nothing more of the
\* manifest is processed.
C11_OutOfShapeFailsAtOnce ==
    /\ [](OutOfShapeAt # {} =>
            /\ toc_result.state # "ok"
            /\ toc_i < FirstOutOfShape)
    /\ [][/\ (OutOfShapeAt # {} /\ TocLoading /\ toc_i = FirstOutOfShape - 1) =>
               (toc_result'.state = "err" /\ toc_i' = toc_i)
          /\ toc_result.state = "err" => UNCHANGED tocVars]_vars

\* C11 witness: extraction has failed at an element out of shape that comes
\* after elements already processed, with more elements after it.
C11_Witness ==
    /\ toc_result.state = "err"
    /\ OutOfShapeAt # {}
    /\ toc_i = FirstOutOfShape - 1
    /\ toc_i >= 2
    /\ FirstOutOfShape < Len(manifest)
    /\ manifest[FirstOutOfShape].type = "List"

\* The entries of a list item's elements at depth d, stated by position:
\* one entry per Link, in order, with level Section(d), the rendered label
\* as title and the url as path; its children are the entries, at depth
\* d + 1, of the items of every List that has this Link as the last Link
\* before it, in order.
LastLinkBefore(elems, j) ==
    LET links == {i \in 1..(j - 1) : elems[i].type = "Link"}
    IN  IF links = {} THEN 0 ELSE CHOOSE i \in links : \A n \in links : n <= i
RECURSIVE ExpectedEntries(_, _)
ExpectedEntries(elems, d) ==
    LET at == SelectSeq([i \in 1..Len(elems) |-> i], LAMBDA i : elems[i].type = "Link")
        ListsOf(i) ==
            SelectSeq([j \in 1..Len(elems) |-> j],
                      LAMBDA j : elems[j].type = "List" /\ LastLinkBefore(elems, j) = i)
        ChildrenOf(i) ==
            Concat([n \in 1..Len(ListsOf(i)) |->
                      LET items == elems[ListsOf(i)[n]].items
                      IN  Concat([k \in 1..Len(items) |-> ExpectedEntries(items[k], d + 1)])])
    IN  [n \in 1..Len(at) |->
            [level |-> [kind |-> "Section", depth |-> d],
             title |-> frag_to_tex(elems[at[n]].frag).val,
             path |-> elems[at[n]].url,
             child_entries |-> ChildrenOf(at[n])]]

\* C12: every step that converts a top-level List adds to the body entries,
\* for each item in order, one entry per Link of the item (Section(d), the
\* rendered label, the url) whose children are the entries at depth d + 1 of
\* the Lists that directly follow that Link.
C12_ListConversion ==
    [][(toc_i' = toc_i + 1 /\ manifest[toc_i + 1].type = "List") =>
          LET items == manifest[toc_i + 1].items IN
          body_sections' =
              body_sections
              \o Concat([k \in 1..Len(items) |-> ExpectedEntries(items[k], 0)])]_vars

\* C12 witness: a List was converted whose item has two Links followed by a
\* sub-list, two levels below the top; the sub-list's entry is the child of
\* the second Link's entry only.
C12_Witness ==
    /\ toc_result.state = "ok"
    /\ \E n \in 1..Len(body_sections) :
          \E c \in 1..Len(body_sections[n].child_entries) :
             LET sub == body_sections[n].child_entries IN
             /\ c > 1
             /\ sub[c].child_entries # <<>>
             /\ sub[c - 1].child_entries = <<>>
             /\ sub[c].child_entries[1].level = Section(2)

\* The top-level Lists of the manifest, by position.
TopLevelLists == {i \in 1..Len(manifest) : manifest[i].type = "List"}
FirstTopLevelList == CHOOSE i \in TopLevelLists : \A j \in TopLevelLists : i <= j
EntriesOfList(i) ==
    LET items == manifest[i].items
    IN  Concat([k \in 1..Len(items) |-> ExpectedEntries(items[k], 0)])

\* C13 (as claimed): the body-matter group of a returned navigation tree
\* holds exactly the entries of the first top-level List; a later top-level
\* List adds nothing to it.
C13_BodyFromFirstListOnly ==
    (toc_result.state = "ok" /\ TopLevelLists # {}) =>
        toc_result.toc.body_matter_sections = EntriesOfList(FirstTopLevelList)

IsBrace(c) == c \in {"{", "}"}
TypingStepTaken == typing_i' = typing_i + 1
TypingFinishTaken == typing_done' /\ ~typing_done

\* C14 (as claimed): a brace character is echoed in a brace-delimited run
\* (state Braces, opened by the marker followed by an opening brace) and any
\* other character in a delimiter-style run (state Plusses, opened by the
\* marker followed by the delimiter).
C14_SpecMachineClaimed ==
    (typing_i >= 1 /\ ~typing_done) =>
        /\ IsBrace(typing_input[typing_i]) => typing_state = "Braces"
        /\ ~IsBrace(typing_input[typing_i]) => typing_state = "Plusses"

\* C14 (amended): on a brace character the transducer first closes an open
\* brace-delimited run, then, if Closed, emits the opening marker of a
\* delimiter-style run and enters Plusses; on any other character it first
\* closes an open delimiter-style run, then, if Closed, emits the opening
\* marker of a brace-delimited run and enters Braces; the character is
\* echoed after the transition, and at the end of input the closing marker
\* of the final state is emitted. So every brace character is echoed in a
\* delimiter-style run and every other character in a brace-delimited run.
C14_CodeMachine ==
    [][/\ TypingStepTaken =>
            LET c == typing_input[typing_i + 1]
                target == IF IsBrace(c) THEN "Plusses" ELSE "Braces"
                closing == CASE typing_state = target -> <<>>
                             [] typing_state = "Closed" -> <<>>
                             [] typing_state = "Braces" -> <<"}">>
                             [] typing_state = "Plusses" -> <<"+">>
                opening == IF typing_state = target THEN <<>>
                           ELSE TypeMarker \o <<IF IsBrace(c) THEN "+" ELSE "{">>
            IN  /\ typing_state' = target
                /\ typing_ret' = typing_ret \o closing \o opening \o <<c>>
       /\ TypingFinishTaken =>
            typing_ret' = typing_ret
                          \o (CASE typing_state = "Braces" -> <<"}">>
                                [] typing_state = "Plusses" -> <<"+">>
                                [] typing_state = "Closed" -> <<>>)]_vars

\* C14 witness: the transducer has returned for an input that made it switch
\* from a brace-delimited run to a delimiter-style run and back.
C14_Witness ==
    /\ typing_done
    /\ Len(typing_input) = 4
    /\ ~IsBrace(typing_input[1]) /\ IsBrace(typing_input[2])
    /\ IsBrace(typing_input[3]) /\ ~IsBrace(typing_input[4])
    /\ Len(Runs(typing_ret)) = 3

\* The output so far, with the run that is still open closed.
ClosedOutput ==
    IF typing_done THEN typing_ret
    ELSE typing_ret \o (CASE typing_state = "Braces" -> <<"}">>
                          [] typing_state = "Plusses" -> <<"+">>
                          [] typing_state = "Closed" -> <<>>)
RunContents(runs) == Concat([k \in 1..Len(runs) |-> runs[k].content])

\* C15: the output is a sequence of runs, each opened by its marker and
\* closed by its own closing marker before the next opens or the output
\* ends; no brace-delimited run holds a brace character, no delimiter-style
\* run holds its delimiter character, and the contents of the runs in order
\* are the input characters read so far, each exactly once.
C15_EveryCharacterRepresentable ==
    LET runs == Runs(ClosedOutput) IN
    /\ \A k \in 1..Len(runs) :
          /\ runs[k].style \in {"brace", "delimiter"}
          /\ runs[k].content # <<>>
          /\ \A n \in 1..Len(runs[k].content) :
                /\ runs[k].style = "brace" => ~IsBrace(runs[k].content[n])
                /\ runs[k].style = "delimiter" => runs[k].content[n] # "+"
    /\ RunContents(runs) = SubSeq(typing_input, 1, typing_i)
    /\ typing_done => typing_i = Len(typing_input)

\* C15 witness: the transducer has returned for an input holding both brace
\* characters, the delimiter character and a letter.
C15_Witness ==
    /\ typing_done
    /\ \A c \in {"{", "}", "+", "a"} :
          \E n \in 1..Len(typing_input) : typing_input[n] = c
    /\ Len(Runs(typing_ret)) >= 3

\* No end event of the stream stands at top level: every end event closes
\* a construct that is open.
NoStrayEnd(toks) ==
    \A i \in 1..Len(toks) : toks[i].ev = "End" => Opened(toks, i - 1) >= 1
LeafEvents(toks) ==
    Cardinality({i \in 1..Len(toks) : toks[i].ev \in {"Text", "Code", "SoftBreak"}})
RECURSIVE LeafCount(_)
LeafCountAll(frags) ==
    LET RECURSIVE Sum(_)
        Sum(k) == IF k = 0 THEN 0 ELSE LeafCount(frags[k]) + Sum(k - 1)
    IN  Sum(Len(frags))
LeafCount(f) ==
    LET Of(e) ==
          CASE e.type \in {"Text", "Code"} -> 1
            [] e.type = "List" -> LeafCountAll(e.items)
            [] e.type = "Table" -> LeafCountAll(Concat(e.header_rows \o e.body_rows))
            [] OTHER -> LeafCount(e.frag)
        RECURSIVE Sum(_)
        Sum(k) == IF k = 0 THEN 0 ELSE Of(f[k]) + Sum(k - 1)
    IN  Sum(Len(f))

\* The builder has consumed every token of the stream, the fragment it
\* returned is what the first top-level invocation produced (the only
\* invocation that yields an empty fragment is the one started on the
\* exhausted stream), and the fragment holds one leaf per text, code and
\* soft-break token.
NoTokenDropped ==
    LET res == parse_result.res
        first == parse_until_end_event(tokens, 1, <<>>)
        last == parse_until_end_event(tokens, res.pos, <<>>)
    IN  /\ res.pos = Len(tokens) + 1
        /\ first.ok /\ first.val = res.val
        /\ first.val = <<>> => tokens = <<>>
        /\ last.ok /\ last.val = <<>>
        /\ LeafCount(res.val) = LeafEvents(tokens)

\* C16 as claimed: for every token stream on which the builder returns a
\* fragment, an invocation at top level yields an empty fragment only when
\* the stream is exhausted, every token has been consumed and the fragment
\* is the concatenation of what the invocations produced: no token is
\* dropped. It fails on a stream with an end event at top level: the
\* invocation that reads it breaks with an empty fragment and the builder
\* returns with the tokens after it unread.
C16_NoTokenDroppedClaimed ==
    (ParseDone /\ parse_result.res.ok) => NoTokenDropped

\* C16 as amended: for every token stream without an end event at top
\* level on which the builder returns a fragment, no token is dropped.
C16_NoTokenDropped ==
    (ParseDone /\ NoStrayEnd(tokens) /\ parse_result.res.ok) => NoTokenDropped

\* C16 witness: the builder returned a fragment for a stream with two
\* top-level constructs, each closed by its end event, and leaves inside.
C16_Witness ==
    /\ ParseDone /\ NoStrayEnd(tokens) /\ parse_result.res.ok
    /\ TopLevelCount(tokens) = 2
    /\ tokens[1].ev = "Start" /\ tokens[Len(tokens)].ev = "End"
    /\ LeafEvents(tokens) >= 2
    /\ Len(parse_result.res.val) = 2

\* Every entry of a group at nesting depth k has level Section(k), and so
\* on for its children one level deeper.
RECURSIVE LevelsFollowDepth(_, _)
LevelsFollowDepth(entries, k) ==
    \A n \in 1..Len(entries) :
       /\ entries[n].level.kind = "Section"
       /\ entries[n].level.depth = k
       /\ LevelsFollowDepth(entries[n].child_entries, k + 1)
RECURSIVE EntryDepth(_)
EntryDepth(entries) ==
    IF entries = <<>> THEN 0
    ELSE 1 + Max({EntryDepth(entries[n].child_entries) : n \in 1..Len(entries)})

\* C17: in every navigation tree returned, and in the groups while they are
\* built, an entry at nesting depth k has level Section(k); Part and Chapter
\* never occur; the appendix group is empty.
C17_LevelsAndAppendix ==
    /\ LevelsFollowDepth(front_matter_sections, 0)
    /\ LevelsFollowDepth(body_sections, 0)
    /\ LevelsFollowDepth(back_matter_sections, 0)
    /\ toc_result.state = "ok" =>
          /\ LevelsFollowDepth(toc_result.toc.front_matter_sections, 0)
          /\ LevelsFollowDepth(toc_result.toc.body_matter_sections, 0)
          /\ LevelsFollowDepth(toc_result.toc.back_matter_sections, 0)
          /\ toc_result.toc.appendix_sections = <<>>

\* C17 witness: a tree was returned with front and back matter and a body
\* entry that has a grandchild.
C17_Witness ==
    /\ toc_result.state = "ok"
    /\ toc_result.toc.front_matter_sections # <<>>
    /\ toc_result.toc.back_matter_sections # <<>>
    /\ EntryDepth(toc_result.toc.body_matter_sections) >= 3
    /\ Len(toc_result.toc.body_matter_sections) >= 2

=============================================================================
